---- MODULE Spec2Model ----
(***************************************************************************)
(* A model of the apex-replay backend: the session caches and lap-time     *)
(* derivation of RaceDataProcessor (services/data_processor.py), the       *)
(* result cache and compare route of routers/analysis.py, the cache-clear  *)
(* route of main.py, the replay router's own processor (routers/replay.py) *)
(* and the text-to-columnar conversion of source files.                    *)
(***************************************************************************)
EXTENDS Integers, Sequences, FiniteSets, TLC

VARIABLES
    \* ---- the session's source data (static once the process runs)
    lapFile,        \* a lap_time file exists for the session
    telFile,        \* a telemetry file exists for the session
    events,         \* events[<<v, l>>]: timestamp of vehicle v's lap-l event, or NoEvent
    telemetry,      \* the (vehicle, lap) pairs that have telemetry rows
    \* ---- the processors of the process
    proc,           \* proc[p]: the seven cache maps of RaceDataProcessor instance p
    replayCreated,  \* routers/replay.py: _data_processor is not None
    clears,         \* number of /api/clear-cache requests served so far
    resp,           \* the last response handed to a caller
    supportFiles,   \* which of the results / weather files the session has
    \* ---- routers/analysis.py
    aiClient,       \* ai_coach.client is not None (GEMINI_API_KEY set)
    analysis_cache, \* _analysis_cache: the OrderedDict as a sequence, oldest first
    heap,           \* the payload objects: address -> cell
    \* ---- history variables of the claims
    useOrder,       \* the cached keys, least recently used (set or got) first
    lruOk,          \* every eviction so far removed the least recently used keys
    setContent,     \* setContent[k]: the payload as it was when k was last set
    watch,          \* the compare parameters whose responses are followed
    lastWatched,    \* the last payload answered for `watch`, if any
    setOrder,       \* the cached keys, least recently set first
    tampered,       \* the cached keys of which a caller has written to a payload
    \* ---- request threads inside _cache_get / _cache_set
    thr,            \* thr[t]: where thread t is in its call, and its local variables
    \* ---- one source file of a circuit directory and its conversion
    fs,             \* the text file, the columnar file and the temporary file
    conv,           \* where _convert_csv_file is, and its local variables
    resolved,       \* what _find_data_file returned last
    \* ---- one call of the sector comparison of compare_laps
    cmp,            \* the two telemetry slices, the sector size and the outcome
    \* ---- one call of _to_native
    nat,            \* the value handed to _to_native and what it returned
    \* ---- one call of ReplayProcessor.normalize_lap_to_timeline
    replay,         \* the cleaned telemetry of the lap and the timeline returned
    \* ---- two compare requests at _make_cache_key
    keyed,          \* the parameters of the two requests and their cache keys
    \* ---- the start-up conversion of a data directory
    boot,           \* the directory tree and the log of the files attempted
    \* ---- one call of the builders of compare_laps' insights
    ins             \* the vehicle's history and what the builders returned

dataVars == <<lapFile, telFile, events, telemetry, supportFiles>>
procVars == <<proc, replayCreated, clears, resp>>
analysisVars == <<aiClient, analysis_cache, heap, useOrder, lruOk, setContent,
                  watch, lastWatched, setOrder, tampered>>

concVars == <<thr>>
fileVars == <<fs, conv, resolved>>
calcVars == <<cmp, nat, replay, keyed, boot, ins>>

vars == <<dataVars, procVars, analysisVars, concVars, fileVars, calcVars>>

-----------------------------------------------------------------------------
(* Bounds of the model and the values the inputs are drawn from.           *)

MaxLap == 3
MaxClears == 1

Circuit == "barber"
Race == "R1"
Vehicles == {"GR86-002-13", "GR86-004-78"}
Laps == 1..MaxLap
NoEvent == -1
\* lap=None of load_telemetry
NoLap == -1
\* timestamps (seconds); the differences hit 1, 59, 60, 200, 201, 260 and negatives
TimeGrid == {0, 59, 60, 260}

\* df['vehicle_id'].str.split('-').str[1] / .str[2].astype(int)
Chassis(v) == IF v = "GR86-002-13" THEN "002" ELSE "004"
CarNumber(v) == IF v = "GR86-002-13" THEN 13 ELSE 78

None == <<>>
Some(x) == <<x>>

\* local = value; ...: F of the value, the value computed once
Bind(value, F(_)) == CHOOSE y \in {F(x) : x \in {value}} : TRUE

-----------------------------------------------------------------------------
(* RaceDataProcessor: construction and cache keys.                         *)

CacheNames == {"telemetry_cache", "lap_times_cache", "lap_events_cache",
               "vehicles_cache", "golden_laps"}

\* RaceDataProcessor.__init__: seven empty maps.  stamp is a history field: the
\* value of `clears` at the time each entry of a per-session map was stored.
NewProcessor ==
    [telemetry_cache |-> <<>>, lap_times_cache |-> <<>>, lap_events_cache |-> <<>>,
     vehicles_cache |-> <<>>, golden_laps |-> <<>>,
     race_results_cache |-> <<>>, weather_cache |-> <<>>,
     stamp |-> <<>>]

LapEventsKey(c, r) == c \o "_" \o r \o "_lap_events"
LapTimesKey(c, r) == c \o "_" \o r \o "_laptimes"
VehiclesKey(c, r) == c \o "_" \o r \o "_vehicles"
SessionKey(c, r) == c \o "_" \o r
\* load_telemetry: "if vehicle_id:" / "if lap:" (a None and a 0 add nothing)
TelemetryKey(c, r, vehicle_id, lap) ==
    c \o "_" \o r
      \o (IF vehicle_id # "" THEN "_" \o vehicle_id ELSE "")
      \o (IF lap # NoLap /\ lap # 0 THEN "_lap" \o ToString(lap) ELSE "")

\* self.<cache>[key] = value, remembering when it was stored
Store(P, cache, key, value) ==
    [P EXCEPT ![cache] = (key :> value) @@ @,
              !.stamp = (<<cache, key>> :> clears) @@ @]

HasData(c, r) == c = Circuit /\ r = Race

-----------------------------------------------------------------------------
(* Lap events and lap times.                                               *)

\* _load_lap_events: the cached table, else the file's rows with lap > 0
LoadLapEvents(P, c, r) ==
    LET key == LapEventsKey(c, r) IN
    IF key \in DOMAIN P.lap_events_cache
    THEN [P |-> P, err |-> "", val |-> P.lap_events_cache[key],
          reads |-> {<<"lap_events_cache", key>>}]
    ELSE IF ~(HasData(c, r) /\ lapFile)
    THEN [P |-> P, err |-> "FileNotFoundError", val |-> {}, reads |-> {}]
    ELSE Bind({[vehicle |-> v, lap |-> l, timestamp |-> events[<<v, l>>]] :
                  <<v, l>> \in {x \in Vehicles \X Laps :
                                   events[x] # NoEvent /\ x[2] > 0}},
              LAMBDA df :
                [P |-> Store(P, "lap_events_cache", key, df), err |-> "", val |-> df,
                 reads |-> {}])

\* the rows of e's vehicle that come before e in sort_values(['vehicle_id', 'lap'])
RowsBefore(df, e) == {f \in df : f.vehicle = e.vehicle /\ f.lap < e.lap}

\* groupby('vehicle_id')['timestamp'].shift(1): the row right before e
PrevRow(df, e) ==
    CHOOSE f \in RowsBefore(df, e) : \A g \in RowsBefore(df, e) : g.lap <= f.lap

\* the band filter of line 375
InBandNoUpper(t) == t >= 60
InBand(t) == t >= 60 /\ t <= 200

\* lines 371-375: lap_time = timestamp - prev_timestamp, NaN rows and rows
\* outside the band dropped
LapTimeRows(df) ==
    {[vehicle |-> e.vehicle, lap |-> e.lap, timestamp |-> e.timestamp,
      lap_time |-> e.timestamp - PrevRow(df, e).timestamp] :
        e \in {x \in df : /\ RowsBefore(df, x) # {}
                          /\ InBand(x.timestamp - PrevRow(df, x).timestamp)}}

\* calculate_lap_times
CalculateLapTimes(P, c, r) ==
    LET key == LapTimesKey(c, r) IN
    IF key \in DOMAIN P.lap_times_cache
    THEN [P |-> P, err |-> "", val |-> P.lap_times_cache[key],
          reads |-> {<<"lap_times_cache", key>>}]
    ELSE Bind(LoadLapEvents(P, c, r), LAMBDA ev :
         IF ev.err # "" THEN [P |-> ev.P, err |-> ev.err, val |-> {}, reads |-> ev.reads]
         ELSE IF ev.val = {}
         THEN [P |-> ev.P, err |-> "ValueError: No lap data available", val |-> {},
               reads |-> ev.reads]
         ELSE Bind(LapTimeRows(ev.val), LAMBDA lt :
                [P |-> Store(ev.P, "lap_times_cache", key, lt), err |-> "",
                 val |-> lt, reads |-> ev.reads]))

\* get_laps: the vehicle's rows of the lap-time table (a list sorted by lap; the
\* rows have distinct laps, so the set of rows determines the list)
GetLaps(P, c, chassis, car_number, r) ==
    Bind(CalculateLapTimes(P, c, r), LAMBDA lt :
    IF lt.err # "" THEN lt
    ELSE [lt EXCEPT !.val = {[lap_number |-> x.lap, lap_time |-> x.lap_time] :
                                x \in {y \in lt.val : /\ Chassis(y.vehicle) = chassis
                                                      /\ CarNumber(y.vehicle) = car_number}}])

\* get_vehicles
GetVehicles(P, c, r) ==
    LET key == VehiclesKey(c, r) IN
    IF key \in DOMAIN P.vehicles_cache
    THEN [P |-> P, err |-> "", val |-> P.vehicles_cache[key],
          reads |-> {<<"vehicles_cache", key>>}]
    ELSE Bind(LoadLapEvents(P, c, r), LAMBDA ev :
         IF ev.err # "" THEN ev
         ELSE IF ev.val = {}
         THEN [P |-> ev.P, err |-> "FileNotFoundError", val |-> {}, reads |-> ev.reads]
         ELSE Bind({[chassis |-> Chassis(v), car_number |-> CarNumber(v),
                     total_laps |-> Cardinality({e.lap : e \in {x \in ev.val : x.vehicle = v}})] :
                       v \in {e.vehicle : e \in ev.val}},
                   LAMBDA roster :
                     [P |-> Store(ev.P, "vehicles_cache", key, roster), err |-> "",
                      val |-> roster, reads |-> ev.reads]))

-----------------------------------------------------------------------------
(* Telemetry and the golden lap.                                           *)

\* load_telemetry; a table is modelled by the (vehicle, lap) pairs that have
\* rows in it.  _load_from_parquet filters on lap when "lap is not None" and
\* never on vehicle_id
LoadTelemetry(P, c, r, vehicle_id, lap) ==
    LET key == TelemetryKey(c, r, vehicle_id, lap) IN
    IF key \in DOMAIN P.telemetry_cache
    THEN [P |-> P, err |-> "", val |-> P.telemetry_cache[key],
          reads |-> {<<"telemetry_cache", key>>}]
    ELSE IF ~(HasData(c, r) /\ telFile)
    THEN [P |-> P, err |-> "FileNotFoundError", val |-> {}, reads |-> {}]
    ELSE Bind({x \in telemetry : lap # NoLap => x[2] = lap}, LAMBDA df :
            IF df = {}
            THEN [P |-> P, err |-> "", val |-> {}, reads |-> {}]
            ELSE [P |-> Store(P, "telemetry_cache", key, df), err |-> "",
                  val |-> df, reads |-> {}])

\* get_lap_telemetry: load by lap only, then filter on chassis and car number
GetLapTelemetry(P, c, chassis, car_number, lap, r) ==
    Bind(LoadTelemetry(P, c, r, "", lap), LAMBDA tel :
    IF tel.err # "" THEN tel
    ELSE IF tel.val = {} THEN [tel EXCEPT !.err = "ValueError: No telemetry found for lap"]
    ELSE Bind({x \in tel.val : Chassis(x[1]) = chassis /\ CarNumber(x[1]) = car_number},
              LAMBDA rows :
                IF rows = {}
                THEN [tel EXCEPT !.err = "ValueError: No telemetry found for chassis",
                                 !.val = {}]
                ELSE [tel EXCEPT !.val = rows]))

\* _lap_has_telemetry: any exception counts as "no telemetry"
LapHasTelemetry(P, c, chassis, car_number, lap, r) ==
    Bind(GetLapTelemetry(P, c, chassis, car_number, lap, r), LAMBDA tel :
         [P |-> tel.P, val |-> (tel.err = "" /\ tel.val # {}), reads |-> tel.reads])

\* a row comes before another in lap_times.sort_values('lap_time'); rows of equal
\* lap_time keep the table's order, which is by (vehicle_id, lap)
RowBefore(a, b) ==
    \/ a.lap_time < b.lap_time
    \/ /\ a.lap_time = b.lap_time
       /\ \/ CarNumber(a.vehicle) < CarNumber(b.vehicle)
          \/ a.vehicle = b.vehicle /\ a.lap < b.lap

RECURSIVE SortByLapTime(_)
SortByLapTime(rows) ==
    IF rows = {} THEN <<>>
    ELSE LET first == CHOOSE a \in rows : \A b \in rows \ {a} : RowBefore(a, b)
         IN <<first>> \o SortByLapTime(rows \ {first})

\* the candidate loop of find_golden_lap (lines 396-406), from candidate i on
RECURSIVE FirstWithTelemetry(_, _, _, _, _, _)
FirstWithTelemetry(P, cands, i, c, r, reads) ==
    IF i > Len(cands) THEN [P |-> P, val |-> None, reads |-> reads]
    ELSE Bind(LapHasTelemetry(P, c, Chassis(cands[i].vehicle),
                              CarNumber(cands[i].vehicle), cands[i].lap, r),
              LAMBDA has :
                IF has.val
                THEN [P |-> has.P, val |-> Some(cands[i]), reads |-> reads \cup has.reads]
                ELSE FirstWithTelemetry(has.P, cands, i + 1, c, r, reads \cup has.reads))

\* the loop accepting the fastest candidate without looking at its telemetry
FirstCandidate(P, cands, c, r) ==
    [P |-> P, val |-> IF cands = <<>> THEN None ELSE Some(cands[1]), reads |-> {}]

GoldenCandidate(P, cands, c, r) == FirstWithTelemetry(P, cands, 1, c, r, {})

\* find_golden_lap
FindGoldenLap(P, c, r) ==
    LET key == SessionKey(c, r) IN
    IF key \in DOMAIN P.golden_laps
    THEN [P |-> P, err |-> "", val |-> P.golden_laps[key],
          reads |-> {<<"golden_laps", key>>}]
    ELSE Bind(CalculateLapTimes(P, c, r), LAMBDA lt :
         IF lt.err # "" THEN [lt EXCEPT !.val = None]
         ELSE IF lt.val = {}
         THEN [P |-> lt.P, err |-> "ValueError: No valid lap times found",
               val |-> None, reads |-> lt.reads]
         ELSE Bind(GoldenCandidate(lt.P, SortByLapTime(lt.val), c, r), LAMBDA got :
              IF got.val = None
              THEN [P |-> got.P,
                    err |-> "ValueError: No lap with telemetry available",
                    val |-> None, reads |-> lt.reads \cup got.reads]
              ELSE Bind([circuit |-> c, race |-> r,
                         chassis |-> Chassis(got.val[1].vehicle),
                         car_number |-> CarNumber(got.val[1].vehicle),
                         lap |-> got.val[1].lap, time |-> got.val[1].lap_time],
                        LAMBDA golden :
                          [P |-> Store(got.P, "golden_laps", key, golden), err |-> "",
                           val |-> golden, reads |-> lt.reads \cup got.reads])))

\* clear_cache: five of the seven maps are replaced by empty maps
ClearedAlsoResults(P) ==
    [P EXCEPT !.telemetry_cache = <<>>, !.lap_times_cache = <<>>,
              !.lap_events_cache = <<>>, !.vehicles_cache = <<>>,
              !.golden_laps = <<>>, !.race_results_cache = <<>>, !.stamp = <<>>]
Cleared(P) ==
    [P EXCEPT !.telemetry_cache = <<>>, !.lap_times_cache = <<>>,
              !.lap_events_cache = <<>>, !.vehicles_cache = <<>>,
              !.golden_laps = <<>>, !.stamp = <<>>]

-----------------------------------------------------------------------------
(* The comparison engine, as far as it reads and fills the session caches. *)

\* self.race_results_cache[key] = ... / self.weather_cache[key] = ...: the
\* summary of the support file, or None when the session has no such file
SupportSummary(P, cache, kind, c, r) ==
    LET key == SessionKey(c, r) IN
    IF key \in DOMAIN P[cache]
    THEN [P |-> P, val |-> P[cache][key]]
    ELSE LET summary == IF HasData(c, r) /\ kind \in supportFiles
                        THEN "summary of " \o kind ELSE "None"
         IN [P |-> [P EXCEPT ![cache] = (key :> summary) @@ @], val |-> summary]

GetRaceResultsSummary(P, c, r) == SupportSummary(P, "race_results_cache", "results", c, r)
GetWeatherSummary(P, c, r) == SupportSummary(P, "weather_cache", "weather", c, r)

\* the telemetry loads of _build_hot_zone_metrics (lines 960-967): one
\* get_lap_telemetry per lap of the window, a failure skipping the lap
RECURSIVE HotZoneLoads(_, _, _, _, _, _, _)
HotZoneLoads(P, c, chassis, car_number, laps, r, reads) ==
    IF laps = <<>> THEN [P |-> P, reads |-> reads]
    ELSE Bind(GetLapTelemetry(P, c, chassis, car_number, Head(laps), r), LAMBDA tel :
              HotZoneLoads(tel.P, c, chassis, car_number, Tail(laps), r,
                           reads \cup tel.reads))

RECURSIVE SortedLaps(_)
SortedLaps(laps) ==
    IF laps = {} THEN <<>>
    ELSE LET first == CHOOSE l \in laps : \A k \in laps : l <= k
         IN <<first>> \o SortedLaps(laps \ {first})

\* laps[-6:]
LastSix(laps) == IF Len(laps) <= 6 THEN laps ELSE SubSeq(laps, Len(laps) - 5, Len(laps))

\* compare_laps: the golden lap, the two telemetry slices, the lap times, the
\* hot-zone window and the session context.  The payload keeps the lap times
\* and which rows each slice holds; the tables derived from the samples are a
\* function of those slices.  The ghost laps are laps of the vehicle's history,
\* whose telemetry the hot-zone window has already loaded when the history has
\* at most six laps.
CompareLaps(P, c, chassis, car_number, lap, r) ==
    Bind(FindGoldenLap(P, c, r), LAMBDA g :
    IF g.err # "" THEN [P |-> g.P, err |-> g.err, val |-> None, reads |-> g.reads]
    ELSE
    Bind(GetLapTelemetry(g.P, c, chassis, car_number, lap, r), LAMBDA u :
    IF u.err # "" THEN [P |-> u.P, err |-> u.err, val |-> None, reads |-> g.reads \cup u.reads]
    ELSE
    Bind(GetLapTelemetry(u.P, c, g.val.chassis, g.val.car_number, g.val.lap, r), LAMBDA gd :
    IF gd.err # ""
    THEN [P |-> gd.P, err |-> gd.err, val |-> None,
          reads |-> g.reads \cup u.reads \cup gd.reads]
    ELSE
    Bind(CalculateLapTimes(gd.P, c, r), LAMBDA lt :
    Bind({x \in lt.val : /\ Chassis(x.vehicle) = chassis
                         /\ CarNumber(x.vehicle) = car_number}, LAMBDA mine :
    Bind(IF {x \in mine : x.lap = lap} = {} THEN None
         ELSE Some((CHOOSE x \in mine : x.lap = lap).lap_time), LAMBDA user_lap_time :
    Bind(HotZoneLoads(lt.P, c, chassis, car_number,
                      LastSix(SortedLaps({x.lap : x \in mine})), r, {}), LAMBDA hz :
    Bind(GetRaceResultsSummary(hz.P, c, r), LAMBDA rr :
    Bind(GetWeatherSummary(rr.P, c, r), LAMBDA w :
       [P |-> w.P, err |-> lt.err,
        val |-> [user_lap_time |-> user_lap_time,
                 golden_lap_time |-> g.val.time,
                 time_diff |-> IF user_lap_time = None THEN None
                               ELSE Some(user_lap_time[1] - g.val.time),
                 user_rows |-> u.val, golden_rows |-> gd.val,
                 recommendations |-> [sectors_of |-> <<u.val, gd.val>>],
                 history |-> {[lap |-> x.lap, lap_time |-> x.lap_time] : x \in mine},
                 session_context |-> [race_results |-> rr.val, weather |-> w.val]],
        reads |-> g.reads \cup u.reads \cup gd.reads \cup lt.reads \cup hz.reads]
    )))))))))

-----------------------------------------------------------------------------
(* routers/analysis.py: the result cache.  A payload is an object of the    *)
(* heap: the result dict (cell v, with sub the address of its nested        *)
(* ai_coach dict) and the ai_coach dict (cell v, sub 0).  dirty marks a cell *)
(* a caller has written to after it was built.                               *)

CACHE_LIMIT == 2

\* the dict generate_insights returns for generated text (lines 140-145)
AIGenerated ==
    [summary |-> "generated summary", ai_recommendations |-> "generated",
     track_insights |-> "generated", race_brief |-> "generated"]
\* the fallback of a failed request (lines 151-154)
AIUnavailable ==
    [summary |-> "AI Coach is temporarily unavailable.", recommendations |-> <<>>]
\* the answers of the coaching service when a client is configured
AIAnswers == {AIGenerated, AIUnavailable}
\* lines 55-59
AINotConfigured ==
    [summary |-> "AI Coach is not configured. Set GEMINI_API_KEY to enable enhanced guidance.",
     recommendations |-> <<>>]

\* AICoachService.generate_insights
GenerateInsights == IF aiClient THEN AIAnswers ELSE {AINotConfigured}

\* _make_cache_key
MakeCacheKey(c, chassis, car_number, lap, r) ==
    c \o ":" \o chassis \o ":" \o ToString(car_number) \o ":" \o ToString(lap)
      \o ":" \o r \o ":v2"

NextAddr(h) == IF DOMAIN h = {} THEN 1
               ELSE (CHOOSE a \in DOMAIN h : \A b \in DOMAIN h : b <= a) + 1

\* the value of the payload at address a
Content(h, a) == [result |-> h[a].v, result_dirty |-> h[a].dirty,
                  ai_coach |-> h[h[a].sub].v, ai_dirty |-> h[h[a].sub].dirty]

\* result.update(ai_result): the keys of the AI answer overwrite the engine's;
\* result["ai_coach"] = ai_result
NewPayload(h, body, ai) ==
    LET i == NextAddr(h) IN
    [heap |-> (i :> [v |-> ai, sub |-> 0, dirty |-> FALSE])
              @@ ((i + 1) :> [v |-> ai @@ body, sub |-> i, dirty |-> FALSE]) @@ h,
     obj |-> i + 1]

\* a copy of the outer dict only
ShallowCopy(h, a) ==
    LET o == NextAddr(h) IN [heap |-> (o :> h[a]) @@ h, obj |-> o]
\* copy.deepcopy
DeepCopy(h, a) ==
    LET i == NextAddr(h) IN
    [heap |-> (i :> h[h[a].sub]) @@ ((i + 1) :> [h[a] EXCEPT !.sub = i]) @@ h,
     obj |-> i + 1]

\* OrderedDict, as a sequence of [key, obj] with the oldest entry first
Keys(od) == {od[i].key : i \in DOMAIN od}
IndexOf(od, k) == CHOOSE i \in DOMAIN od : od[i].key = k
\* a get that answers with the oldest entry
OdGetOldest(od, k) == IF k \in Keys(od) THEN od[1].obj ELSE 0
\* od.get(key): 0 stands for None
OdGet(od, k) == IF k \in Keys(od) THEN od[IndexOf(od, k)].obj ELSE 0
\* od[key] = obj: a new key goes to the end, a known key keeps its place
OdSetItem(od, k, a) ==
    IF k \in Keys(od) THEN [od EXCEPT ![IndexOf(od, k)].obj = a]
    ELSE Append(od, [key |-> k, obj |-> a])
OdWithout(od, k) == SelectSeq(od, LAMBDA e : e.key # k)
\* od.move_to_end(key)
NoMoveToEnd(od, k) == od
MoveToEnd(od, k) == OdWithout(od, k) \o <<od[IndexOf(od, k)]>>
\* while len(od) > _CACHE_LIMIT: od.popitem(last=False)
RECURSIVE Evict(_)
Evict(od) == IF Len(od) > CACHE_LIMIT THEN Evict(Tail(od)) ELSE od

\* a get that drops the oldest entry when the key is unknown
CacheGetPopsOnMiss(od, h, key) ==
    Bind(OdGet(od, key), LAMBDA cached :
    IF cached # 0
    THEN Bind(DeepCopy(h, cached), LAMBDA cp :
              [od |-> MoveToEnd(od, key), heap |-> cp.heap, obj |-> cp.obj])
    ELSE [od |-> IF od = <<>> THEN od ELSE Tail(od), heap |-> h, obj |-> 0])

\* _cache_get
CacheGet(od, h, key) ==
    Bind(OdGet(od, key), LAMBDA cached :
    IF cached # 0
    THEN Bind(DeepCopy(h, cached), LAMBDA cp :
              [od |-> MoveToEnd(od, key), heap |-> cp.heap, obj |-> cp.obj])
    ELSE [od |-> od, heap |-> h, obj |-> 0])

\* _cache_set
CacheSet(od, h, key, payload) ==
    Bind(DeepCopy(h, payload), LAMBDA cp :
         [od |-> Evict(MoveToEnd(OdSetItem(od, key, cp.obj), key)), heap |-> cp.heap])

\* the heap with only the objects the cache or the caller still refers to,
\* renumbered in the order cache entries first, then the caller's object
Roots(od, obj) == [i \in 1..Len(od) |-> od[i].obj] \o (IF obj = 0 THEN <<>> ELSE <<obj>>)

RECURSIVE Visit(_, _, _)
Visit(h, roots, seen) ==
    IF roots = <<>> THEN seen
    ELSE LET a == Head(roots)
             s1 == IF \E i \in DOMAIN seen : seen[i] = a THEN seen ELSE Append(seen, a)
             b == h[a].sub
             s2 == IF b = 0 \/ \E i \in DOMAIN s1 : s1[i] = b THEN s1 ELSE Append(s1, b)
         IN Visit(h, Tail(roots), s2)

Renumber(order, a) == IF a = 0 THEN 0 ELSE CHOOSE i \in DOMAIN order : order[i] = a

Collected(od, h, obj) ==
    Bind(Visit(h, Roots(od, obj), <<>>), LAMBDA order :
    [od |-> [i \in 1..Len(od) |-> [od[i] EXCEPT !.obj = Renumber(order, @)]],
     heap |-> [i \in 1..Len(order) |->
                  [h[order[i]] EXCEPT !.sub = Renumber(order, @)]],
     obj |-> Renumber(order, obj)])

-----------------------------------------------------------------------------
(* The requests.  Every action is one whole handler.                        *)

\* the exceptions of the engine that are ValueErrors, by message
ValueErrors ==
    {"ValueError: No lap data available",
     "ValueError: No valid lap times found",
     "ValueError: No lap with telemetry available",
     "ValueError: No telemetry found for lap",
     "ValueError: No telemetry found for chassis",
     "ValueError: No valid telemetry data for user lap after cleaning",
     "ValueError: No valid telemetry data for golden lap after cleaning",
     "ValueError: No overlapping sectors between laps"}

\* the except clauses of the routes: the status of the HTTPException raised for
\* exception err (0: a method called directly, the exception reaches the caller)
RouteStatus(op, err) ==
    CASE op = "compare" ->
            IF err \in ValueErrors THEN 400
            ELSE IF err = "FileNotFoundError" THEN 404 ELSE 500
      [] op = "get_vehicles" -> IF err = "FileNotFoundError" THEN 404 ELSE 500
      [] op \in {"find_golden_lap", "get_laps"} -> 500
      [] op \in {"replay_setup", "replay_laps"} -> 404
      [] OTHER -> 0

BaseResp(op, err, val, stale) ==
    [op |-> op, err |-> err, val |-> val, stale |-> stale,
     status |-> IF err = "" THEN 200 ELSE RouteStatus(op, err),
     args |-> <<>>,
     obj |-> 0, key |-> "", hit |-> FALSE, prev |-> None,
     evicted |-> {}, oldestSet |-> ""]

\* the handler was answered from an entry of a per-session map that was stored
\* before the last clear
Stale(P, reads) == \E e \in reads : P.stamp[e] < clears

\* the caller lets go of the payload of the previous response
DropHeld ==
    \E gc \in {Collected(analysis_cache, heap, 0)} :
    /\ analysis_cache' = gc.od
    /\ heap' = gc.heap
    /\ UNCHANGED <<aiClient, useOrder, lruOk, setContent, watch, setOrder, tampered>>

\* routers/replay.py get_processors: the replay routes' own RaceDataProcessor
Processor(p) == IF p = "replay" /\ ~replayCreated THEN NewProcessor ELSE proc[p]

Serve(p, op, result) ==
    \E out \in {result} :
    /\ proc' = [proc EXCEPT ![p] = out.P]
    /\ replayCreated' = (replayCreated \/ p = "replay")
    /\ resp' = BaseResp(op, out.err, out.val, Stale(out.P, out.reads))
    /\ DropHeld
    /\ UNCHANGED <<dataVars, calcVars, concVars, fileVars, clears, lastWatched>>

\* RaceDataProcessor.calculate_lap_times on the global processor
MCalculateLapTimes ==
    Serve("processor", "calculate_lap_times",
          CalculateLapTimes(Processor("processor"), Circuit, Race))

\* processor.load_telemetry(circuit, race, vehicle_id, lap)
MLoadTelemetry(vehicle_id, lap) ==
    \E out \in {LoadTelemetry(Processor("processor"), Circuit, Race, vehicle_id, lap)} :
    /\ proc' = [proc EXCEPT !["processor"] = out.P]
    /\ resp' = [BaseResp("load_telemetry", out.err, out.val, Stale(out.P, out.reads))
                   EXCEPT !.args = <<vehicle_id, lap>>]
    /\ DropHeld
    /\ UNCHANGED <<dataVars, calcVars, concVars, fileVars, replayCreated, clears, lastWatched>>

\* GET /api/analysis/golden/{circuit}
RGetGoldenLap ==
    Serve("processor", "find_golden_lap", FindGoldenLap(Processor("processor"), Circuit, Race))

\* GET /api/vehicles/{circuit}
RListVehicles ==
    Serve("processor", "get_vehicles", GetVehicles(Processor("processor"), Circuit, Race))

\* GET /api/vehicles/{circuit}/{chassis}/{car_number}/laps
RListLaps ==
    \E v \in Vehicles :
        Serve("processor", "get_laps",
              GetLaps(Processor("processor"), Circuit, Chassis(v), CarNumber(v), Race))

\* GET /api/replay/setup/{circuit}: find_golden_lap, then get_vehicles
RReplaySetup ==
    Serve("replay", "replay_setup",
          Bind(FindGoldenLap(Processor("replay"), Circuit, Race), LAMBDA g :
               IF g.err # "" THEN g
               ELSE Bind(GetVehicles(g.P, Circuit, Race), LAMBDA vs :
                         [P |-> vs.P, err |-> vs.err,
                          val |-> [golden_lap |-> g.val, vehicles |-> vs.val],
                          reads |-> g.reads \cup vs.reads])))

\* GET /api/replay/vehicle/{circuit}/{chassis}/{car}
RReplayVehicleLaps ==
    \E v \in Vehicles :
        Serve("replay", "replay_laps",
              GetLaps(Processor("replay"), Circuit, Chassis(v), CarNumber(v), Race))

\* POST /api/replay/prepare with one lap: normalize_lap_to_timeline fetches the
\* lap's telemetry; a failure gives an empty list of timelines
RReplayPrepare(v, lap) ==
    Serve("replay", "replay_prepare",
          [GetLapTelemetry(Processor("replay"), Circuit, Chassis(v), CarNumber(v), lap, Race)
              EXCEPT !.err = ""])

\* GET /api/clear-cache: clear_cache of the global processor
RClearCache ==
    /\ clears < MaxClears
    /\ proc' = [proc EXCEPT !["processor"] = Cleared(@)]
    /\ clears' = clears + 1
    /\ resp' = BaseResp("clear_cache", "", [before |-> proc["processor"]], FALSE)
    /\ DropHeld
    /\ UNCHANGED <<dataVars, calcVars, concVars, fileVars, replayCreated, lastWatched>>

\* the key moved to the most-recently-used end
Touch(order, k) == SelectSeq(order, LAMBDA x : x # k) \o <<k>>

RECURSIVE DropOldest(_)
DropOldest(order) == IF Len(order) > CACHE_LIMIT THEN DropOldest(Tail(order)) ELSE order

Elements(seq) == {seq[i] : i \in DOMAIN seq}

\* POST /api/analysis/compare
RCompareLap(v, lap) ==
    \E key \in {MakeCacheKey(Circuit, Chassis(v), CarNumber(v), lap, Race)} :
    \E got \in {CacheGet(analysis_cache, heap, key)} :
    IF got.obj # 0
    THEN \* "if cached: return cached"
         \E gc \in {Collected(got.od, got.heap, got.obj)} :
         /\ analysis_cache' = gc.od
         /\ heap' = gc.heap
         /\ resp' = [BaseResp("compare", "", Content(got.heap, got.obj), FALSE)
                        EXCEPT !.obj = gc.obj, !.key = key, !.hit = TRUE,
                               !.prev = IF key = watch THEN lastWatched ELSE None]
         /\ useOrder' = Touch(useOrder, key)
         /\ lastWatched' = IF key = watch THEN Some(Content(got.heap, got.obj))
                           ELSE lastWatched
         /\ UNCHANGED <<dataVars, calcVars, concVars, fileVars, proc, replayCreated, clears, aiClient, lruOk,
                        setContent, watch, setOrder, tampered>>
    ELSE
    \E out \in {CompareLaps(Processor("processor"), Circuit, Chassis(v), CarNumber(v),
                             lap, Race)} :
    IF out.err # ""
    THEN \* the except clauses: an HTTP error; the cache is as _cache_get left it
         \E gc \in {Collected(got.od, got.heap, 0)} :
         /\ proc' = [proc EXCEPT !["processor"] = out.P]
         /\ resp' = [BaseResp("compare", out.err, None, Stale(out.P, out.reads))
                        EXCEPT !.key = key]
         /\ analysis_cache' = gc.od
         /\ heap' = gc.heap
         /\ UNCHANGED <<dataVars, calcVars, concVars, fileVars, replayCreated, clears, lastWatched,
                        aiClient, useOrder, lruOk, setContent, watch, setOrder, tampered>>
    ELSE \E ai \in GenerateInsights :
         \E np \in {NewPayload(heap, out.val, ai)} :
         \E st \in {CacheSet(analysis_cache, np.heap, key, np.obj)} :
         \E gc \in {Collected(st.od, st.heap, np.obj)} :
         \E expected \in {DropOldest(Touch(useOrder, key))} :
         /\ proc' = [proc EXCEPT !["processor"] = out.P]
         /\ analysis_cache' = gc.od
         /\ heap' = gc.heap
         /\ resp' = [BaseResp("compare", "", Content(np.heap, np.obj),
                              Stale(out.P, out.reads))
                        EXCEPT !.obj = gc.obj, !.key = key,
                               !.prev = IF key = watch THEN lastWatched ELSE None,
                               !.evicted = (Keys(analysis_cache) \cup {key}) \ Keys(st.od),
                               !.oldestSet = IF setOrder = <<>> THEN "" ELSE Head(setOrder)]
         /\ useOrder' = expected
         /\ lruOk' = (lruOk /\ Keys(st.od) = Elements(expected))
         /\ setContent' = [k \in Keys(st.od) |->
                              IF k = key \/ k \notin DOMAIN setContent
                              THEN Content(np.heap, np.obj) ELSE setContent[k]]
         /\ lastWatched' = IF key = watch THEN Some(Content(np.heap, np.obj))
                           ELSE lastWatched
         /\ setOrder' = SelectSeq(Touch(setOrder, key), LAMBDA k : k \in Keys(st.od))
         /\ tampered' = (tampered \ {key}) \cap Keys(st.od)
         /\ UNCHANGED <<dataVars, calcVars, concVars, fileVars, replayCreated, clears, aiClient, watch>>

\* the caller writes into the payload it was handed: the result dict itself, or
\* the nested ai_coach dict
CallerMutates(part) ==
    /\ resp.obj # 0
    /\ LET a == IF part = "result" THEN resp.obj ELSE heap[resp.obj].sub IN
       /\ ~heap[a].dirty
       /\ heap' = [heap EXCEPT ![a].dirty = TRUE]
    /\ tampered' = tampered \cup {resp.key}
    /\ UNCHANGED <<dataVars, calcVars, concVars, fileVars, procVars, aiClient, analysis_cache, useOrder, lruOk,
                   setContent, watch, lastWatched, setOrder>>

-----------------------------------------------------------------------------
(* Request threads in _cache_get and _cache_set.  compare_lap is a plain     *)
(* def, so the server runs requests on pool threads; every OrderedDict call  *)
(* is one step.                                                              *)

MaxThreadOps == 2

ThreadOrder == <<"A", "B">>
Threads == {ThreadOrder[i] : i \in DOMAIN ThreadOrder}

IdleThread ==
    [pc |-> "idle", op |-> "none", key |-> "", cached |-> 0, payload |-> 0,
     result |-> 0, err |-> "", n |-> 0]

\* the keys the threads ask for
ThreadKeys == {MakeCacheKey(Circuit, "002", 13, l, Race) : l \in Laps}

\* the payload the compare route builds for a key
PayloadFor(key) ==
    [result |-> AINotConfigured @@ [key |-> key], result_dirty |-> FALSE,
     ai_coach |-> AINotConfigured, ai_dirty |-> FALSE]

\* the objects the threads' local variables refer to
Refs(th) ==
    [i \in 1..(3 * Len(ThreadOrder)) |->
        LET t == ThreadOrder[((i - 1) \div 3) + 1] IN
        IF i % 3 = 1 THEN th[t].cached
        ELSE IF i % 3 = 2 THEN th[t].payload ELSE th[t].result]

\* the heap with only the objects the cache or a thread still refers to
Settled(od, h, th) ==
    Bind(Visit(h, SelectSeq([i \in 1..Len(od) |-> od[i].obj] \o Refs(th),
                            LAMBDA a : a # 0), <<>>), LAMBDA order :
       [od |-> [i \in 1..Len(od) |-> [od[i] EXCEPT !.obj = Renumber(order, @)]],
        heap |-> [i \in 1..Len(order) |->
                     [h[order[i]] EXCEPT !.sub = Renumber(order, @)]],
        thr |-> [t \in Threads |->
                    [th[t] EXCEPT !.cached = Renumber(order, @),
                                  !.payload = Renumber(order, @),
                                  !.result = Renumber(order, @)]]])

Settle(od, h, th) ==
    \E st \in {Settled(od, h, th)} :
    /\ analysis_cache' = st.od
    /\ heap' = st.heap
    /\ thr' = st.thr
    /\ UNCHANGED <<dataVars, calcVars, procVars, fileVars, aiClient, useOrder, lruOk,
                   setContent, watch, lastWatched, setOrder, tampered>>

Free(t) == thr[t].pc \in {"idle", "done"} /\ thr[t].n < MaxThreadOps

\* _cache_get line 33: cached = _analysis_cache.get(key)
TGet(t, k) ==
    /\ Free(t)
    /\ LET cached == OdGet(analysis_cache, k) IN
       Settle(analysis_cache, heap,
              [thr EXCEPT ![t] = [IdleThread EXCEPT
                                    !.pc = IF cached # 0 THEN "get_move" ELSE "done",
                                    !.op = "get", !.key = k, !.cached = cached,
                                    !.n = thr[t].n + 1]])

\* _cache_get line 35: _analysis_cache.move_to_end(key), a KeyError when the
\* key is no longer in the map
TGetMove(t) ==
    /\ thr[t].pc = "get_move"
    /\ IF thr[t].key \in Keys(analysis_cache)
       THEN Settle(MoveToEnd(analysis_cache, thr[t].key), heap,
                   [thr EXCEPT ![t].pc = "get_copy"])
       ELSE Settle(analysis_cache, heap,
                   [thr EXCEPT ![t].pc = "done", ![t].err = "KeyError",
                               ![t].cached = 0])

\* _cache_get line 36: return deepcopy(cached)
TGetCopy(t) ==
    /\ thr[t].pc = "get_copy"
    /\ LET cp == DeepCopy(heap, thr[t].cached) IN
       Settle(analysis_cache, cp.heap,
              [thr EXCEPT ![t].pc = "done", ![t].cached = 0, ![t].result = cp.obj])

\* _cache_set line 41: _analysis_cache[key] = deepcopy(payload)
TSet(t, k) ==
    /\ Free(t)
    /\ LET np == NewPayload(heap, [key |-> k], AINotConfigured)
           cp == DeepCopy(np.heap, np.obj)
       IN Settle(OdSetItem(analysis_cache, k, cp.obj), cp.heap,
                 [thr EXCEPT ![t] = [IdleThread EXCEPT
                                       !.pc = "set_move", !.op = "set", !.key = k,
                                       !.payload = np.obj, !.n = thr[t].n + 1]])

\* _cache_set line 42: _analysis_cache.move_to_end(key)
TSetMove(t) ==
    /\ thr[t].pc = "set_move"
    /\ IF thr[t].key \in Keys(analysis_cache)
       THEN Settle(MoveToEnd(analysis_cache, thr[t].key), heap,
                   [thr EXCEPT ![t].pc = "set_len"])
       ELSE Settle(analysis_cache, heap,
                   [thr EXCEPT ![t].pc = "done", ![t].err = "KeyError"])

\* _cache_set line 43: while len(_analysis_cache) > _CACHE_LIMIT
TSetLen(t) ==
    /\ thr[t].pc = "set_len"
    /\ Settle(analysis_cache, heap,
              [thr EXCEPT ![t].pc = IF Len(analysis_cache) > CACHE_LIMIT
                                    THEN "set_pop" ELSE "done"])

\* _cache_set line 44: _analysis_cache.popitem(last=False)
TSetPop(t) ==
    /\ thr[t].pc = "set_pop"
    /\ IF analysis_cache = <<>>
       THEN Settle(analysis_cache, heap,
                   [thr EXCEPT ![t].pc = "done", ![t].err = "KeyError"])
       ELSE Settle(Tail(analysis_cache), heap, [thr EXCEPT ![t].pc = "set_len"])

-----------------------------------------------------------------------------
(* One source file of a circuit directory: the text file, its columnar      *)
(* twin and the temporary file of the conversion.  A modification time of 0 *)
(* stands for "no such file".                                               *)

MaxClock == 4
MaxChunks == 2

NoFile == "absent"

\* every call that touches the disk ends well or raises
Outcomes == {"ok", "raises"}

IdleConversion ==
    [pc |-> "idle", left |-> 0, writer |-> FALSE, raised |-> FALSE, booted |-> FALSE]

\* the operator drops a new text file into the directory
CsvArrives ==
    /\ fs.now < MaxClock
    /\ conv.pc \in {"idle", "done"}
    /\ fs' = [fs EXCEPT !.csv = fs.now + 1, !.now = fs.now + 1]
    /\ UNCHANGED <<dataVars, calcVars, procVars, analysisVars, concVars, conv, resolved>>

\* _bootstrap_data / _convert_csv_directory of a new RaceDataProcessor, and
\* _convert_csv_file lines 75-83: with no text file there is nothing to
\* convert; with a columnar file at least as fresh the text file is removed
ConvertStart(chunks, out) ==
    /\ conv.pc \in {"idle", "done"}
    /\ IF fs.csv = 0
       THEN /\ conv' = [IdleConversion EXCEPT !.pc = "done", !.booted = TRUE]
            /\ fs' = fs
       ELSE IF fs.parquet # 0 /\ fs.parquet >= fs.csv
       THEN /\ conv' = [IdleConversion EXCEPT !.pc = "done", !.booted = TRUE]
            /\ fs' = [fs EXCEPT !.csv = IF out = "ok" THEN 0 ELSE @]
       ELSE /\ conv' = [IdleConversion EXCEPT !.pc = "read", !.left = chunks,
                                              !.booted = conv.booted]
            /\ fs' = fs
    /\ UNCHANGED <<dataVars, calcVars, procVars, analysisVars, concVars, resolved>>

\* the exception leaves the try block: on to the finally clause
Raise(c) == [c EXCEPT !.pc = "finally", !.raised = TRUE]

\* lines 92-97: one chunk of pd.read_csv, the writer opened on the first one
ConvertChunk(read, open, write) ==
    /\ conv.pc = "read" /\ conv.left > 0
    /\ IF read = "raises"
       THEN conv' = Raise(conv) /\ fs' = fs
       ELSE IF ~conv.writer /\ open = "raises"
       THEN conv' = Raise(conv) /\ fs' = fs
       ELSE IF write = "raises"
       THEN /\ conv' = Raise([conv EXCEPT !.writer = TRUE])
            /\ fs' = [fs EXCEPT !.tmp = "partial"]
       ELSE /\ conv' = [conv EXCEPT !.writer = TRUE, !.left = @ - 1]
            /\ fs' = [fs EXCEPT !.tmp = "partial"]
    /\ UNCHANGED <<dataVars, calcVars, procVars, analysisVars, concVars, resolved>>

\* lines 99-107: pq.write_table of an empty table when there was no chunk,
\* else writer.close() and writer = None
ConvertFinish(out) ==
    /\ conv.pc = "read" /\ conv.left = 0
    /\ IF out = "raises"
       THEN /\ conv' = Raise(conv)
            /\ fs' = IF conv.writer THEN fs ELSE [fs EXCEPT !.tmp = "partial"]
       ELSE /\ conv' = [conv EXCEPT !.pc = "rename", !.writer = FALSE]
            /\ fs' = [fs EXCEPT !.tmp = "complete", !.tmpTime = fs.now]
    /\ UNCHANGED <<dataVars, calcVars, procVars, analysisVars, concVars, resolved>>

\* line 109: temp_path.replace(parquet_path)
ConvertRename(out) ==
    /\ conv.pc = "rename"
    /\ IF out = "raises"
       THEN conv' = Raise(conv) /\ fs' = fs
       ELSE /\ conv' = [conv EXCEPT !.pc = "unlink"]
            /\ fs' = [fs EXCEPT !.parquet = fs.tmpTime, !.parquetWhole = (fs.tmp = "complete"),
                                !.tmp = NoFile, !.tmpTime = 0]
    /\ UNCHANGED <<dataVars, calcVars, procVars, analysisVars, concVars, resolved>>

\* line 110: csv_path.unlink()
ConvertUnlink(out) ==
    /\ conv.pc = "unlink"
    /\ IF out = "raises"
       THEN conv' = Raise(conv) /\ fs' = fs
       ELSE /\ conv' = [conv EXCEPT !.pc = "finally"]
            /\ fs' = [fs EXCEPT !.csv = 0]
    /\ UNCHANGED <<dataVars, calcVars, procVars, analysisVars, concVars, resolved>>

\* lines 115-122: writer.close() when a writer is still open, an exception of
\* it leaving the clause; then temp_path.unlink(), an OSError of it ignored
Finally(c, f, close, unlink) ==
    IF c.writer /\ close = "raises"
    THEN [conv |-> [c EXCEPT !.pc = "done", !.raised = TRUE, !.booted = TRUE], fs |-> f]
    ELSE [conv |-> [c EXCEPT !.pc = "done", !.writer = FALSE, !.booted = TRUE],
          fs |-> IF f.tmp # NoFile /\ unlink = "ok"
                 THEN [f EXCEPT !.tmp = NoFile, !.tmpTime = 0] ELSE f]

ConvertFinally(close, unlink) ==
    /\ conv.pc = "finally"
    /\ conv' = Finally(conv, fs, close, unlink).conv
    /\ fs' = Finally(conv, fs, close, unlink).fs
    /\ UNCHANGED <<dataVars, calcVars, procVars, analysisVars, concVars, resolved>>

\* _find_data_file with prefer_parquet: the first columnar match, else the
\* first text match, else None
FindDataFile(f) ==
    IF f.parquet # 0
    THEN [path |-> "parquet", csv |-> f.csv, parquet |-> f.parquet]
    ELSE IF f.csv # 0 THEN [path |-> "csv", csv |-> f.csv, parquet |-> f.parquet]
    ELSE [path |-> "None", csv |-> 0, parquet |-> 0]

\* a load of a processor whose construction has finished
Resolve ==
    /\ conv.booted
    /\ resolved' = FindDataFile(fs)
    /\ UNCHANGED <<dataVars, calcVars, procVars, analysisVars, concVars, fs, conv>>

-----------------------------------------------------------------------------
(* The initial states and the specifications.                               *)

\* vehicle v crosses the line at increasing times, lap after lap
WellFormed(ev, v) ==
    \A l \in Laps : /\ ev[<<v, l>>] # NoEvent
                    /\ l > 1 => ev[<<v, l - 1>>] < ev[<<v, l>>]

Absent(ev, v) == \A l \in Laps : ev[<<v, l>>] = NoEvent

EventTables == [Vehicles \X Laps -> TimeGrid \cup {NoEvent}]

\* the sessions of SpecLaps: one vehicle with any (glitchy) events beside a
\* vehicle that is well-formed or absent, with complete telemetry; or
\* well-formed events with any telemetry dropout and any file missing
InitData ==
    /\ supportFiles = {}
    /\ \/ /\ events \in {ev \in EventTables : \/ WellFormed(ev, "GR86-004-78")
                                              \/ Absent(ev, "GR86-004-78")}
          /\ telemetry = Vehicles \X Laps
          /\ lapFile = TRUE
          /\ telFile = TRUE
       \/ /\ events \in {ev \in EventTables : \A v \in Vehicles : WellFormed(ev, v)}
          /\ telemetry \in SUBSET (Vehicles \X Laps)
          /\ lapFile \in BOOLEAN
          /\ telFile \in BOOLEAN

\* the session of the request-level specifications: the first vehicle laps
\* in 60 s and 200 s, the second has one timed lap, the last one
SessionEvents ==
    [x \in Vehicles \X Laps |->
        IF x[1] = "GR86-002-13"
        THEN (IF x[2] = 1 THEN 0 ELSE IF x[2] = 2 THEN 60 ELSE 260)
        ELSE (IF x[2] = MaxLap THEN 260 ELSE IF x[2] = MaxLap - 1 THEN 60 ELSE 59)]

\* telemetry was recorded from lap 2 on, for the second vehicle on its last
\* lap only
SessionTelemetry ==
    {x \in Vehicles \X Laps : x[2] >= 2 /\ (x[1] = "GR86-002-13" \/ x[2] = MaxLap)}

InitSession ==
    /\ events = SessionEvents
    /\ telemetry = SessionTelemetry
    /\ lapFile = TRUE
    /\ telFile = TRUE
    /\ supportFiles = {"results", "weather"}

InitProc ==
    /\ proc = [p \in {"processor", "replay"} |-> NewProcessor]
    /\ replayCreated = FALSE
    /\ clears = 0
    /\ resp = BaseResp("none", "", None, FALSE)

WatchKeys == {MakeCacheKey(Circuit, Chassis(v), CarNumber(v), l, Race) :
                 v \in Vehicles, l \in Laps}

InitAnalysis ==
    /\ analysis_cache = <<>>
    /\ heap = <<>>
    /\ useOrder = <<>>
    /\ lruOk = TRUE
    /\ setContent = <<>>
    /\ lastWatched = None
    /\ setOrder = <<>>
    /\ tampered = {}

\* no request thread inside the result cache; the source file converted
InitIdle ==
    /\ thr = [t \in Threads |-> IdleThread]
    /\ fs = [csv |-> 0, parquet |-> 1, parquetWhole |-> TRUE, tmp |-> NoFile,
             tmpTime |-> 0, now |-> 1]
    /\ conv = [IdleConversion EXCEPT !.booted = TRUE]
    /\ resolved = [path |-> "None", csv |-> 0, parquet |-> 0]

\* no call of the engine's pure parts under way
InitCalc ==
    /\ cmp = [pc |-> "idle"]
    /\ nat = [pc |-> "idle"]
    /\ replay = [pc |-> "idle"]
    /\ keyed = [pc |-> "idle"]
    /\ boot = [pc |-> "idle"]
    /\ ins = [pc |-> "idle"]

\* the request side at rest, for the specifications of the engine's pure parts
InitRest ==
    /\ InitSession /\ InitProc /\ InitAnalysis /\ InitIdle
    /\ aiClient = FALSE
    /\ watch = ""

\* SpecLaps: the methods of the global processor over the input grid
InitLaps ==
    /\ InitData /\ InitProc /\ InitAnalysis /\ InitIdle /\ InitCalc
    /\ aiClient = FALSE
    /\ watch = ""

NextLaps == MCalculateLapTimes \/ RListLaps \/ RGetGoldenLap \/ RClearCache

SpecLaps == InitLaps /\ [][NextLaps]_vars

\* Spec: compare requests, with or without a configured AI coach
Init ==
    /\ InitSession /\ InitProc /\ InitAnalysis /\ InitIdle /\ InitCalc
    /\ aiClient \in BOOLEAN
    /\ watch \in WatchKeys

Next == \E v \in Vehicles, l \in Laps : RCompareLap(v, l)

Spec == Init /\ [][Next]_vars

\* SpecCache: compare requests whose callers write into the payloads they hold
InitCache ==
    /\ InitSession /\ InitProc /\ InitAnalysis /\ InitIdle /\ InitCalc
    /\ aiClient = FALSE
    /\ watch = ""

NextCache ==
    \/ \E v \in Vehicles, l \in Laps : RCompareLap(v, l)
    \/ \E part \in {"result", "ai_coach"} : CallerMutates(part)

SpecCache == InitCache /\ [][NextCache]_vars

\* SpecRoutes: the analysis, vehicles and replay routes and the cache clear
NextRoutes ==
    \/ \E l \in Laps : RCompareLap("GR86-002-13", l)
    \/ RGetGoldenLap
    \/ RListVehicles
    \/ RListLaps
    \/ RReplaySetup
    \/ RReplayVehicleLaps
    \/ \E l \in Laps : RReplayPrepare("GR86-004-78", l)
    \/ RClearCache

SpecRoutes == InitCache /\ [][NextRoutes]_vars

\* SpecThreads: two request threads in _cache_get and _cache_set
NextThreads ==
    \E t \in Threads :
        \/ \E k \in ThreadKeys : TGet(t, k)
        \/ TGetMove(t)
        \/ TGetCopy(t)
        \/ \E k \in ThreadKeys : TSet(t, k)
        \/ TSetMove(t)
        \/ TSetLen(t)
        \/ TSetPop(t)

SpecThreads == InitCache /\ [][NextThreads]_vars

\* SpecFiles: a source file through conversions and loads.  At start-up the
\* text file is there, with or without a columnar file, older or newer.
InitFiles ==
    /\ InitSession /\ InitProc /\ InitAnalysis /\ InitCalc
    /\ aiClient = FALSE
    /\ watch = ""
    /\ thr = [t \in Threads |-> IdleThread]
    /\ \E p \in 0..3 :
          fs = [csv |-> 2, parquet |-> p, parquetWhole |-> TRUE, tmp |-> NoFile,
                tmpTime |-> 0, now |-> 3]
    /\ conv = IdleConversion
    /\ resolved = [path |-> "None", csv |-> 0, parquet |-> 0]

NextFiles ==
    \/ CsvArrives
    \/ \E chunks \in 0..MaxChunks, out \in Outcomes : ConvertStart(chunks, out)
    \/ \E read, open, write \in Outcomes : ConvertChunk(read, open, write)
    \/ \E out \in Outcomes : ConvertFinish(out)
    \/ \E out \in Outcomes : ConvertRename(out)
    \/ \E out \in Outcomes : ConvertUnlink(out)
    \/ \E close, unlink \in Outcomes : ConvertFinally(close, unlink)
    \/ Resolve

SpecFiles == InitFiles /\ [][NextFiles]_vars

-----------------------------------------------------------------------------
(* The sector comparison of compare_laps (lines 541-598) and the telemetry *)
(* lists of its result (lines 646-659, 691-694).  A slice is the sequence  *)
(* of rows get_lap_telemetry returns, in timestamp order; a row has a      *)
(* distance and a speed, each a number or NaN.                             *)

MaxSamples == 3
\* np.nan, a value apart from every number of the grid
NaN == -999

\* col.ffill().bfill().fillna(0), at row i
Filled(col, i) ==
    IF \E j \in 1..i : col[j] # NaN
    THEN col[CHOOSE j \in 1..i : col[j] # NaN /\ \A k \in (j + 1)..i : col[k] = NaN]
    ELSE IF \E j \in i..Len(col) : col[j] # NaN
    THEN col[CHOOSE j \in i..Len(col) : col[j] # NaN /\ \A k \in i..(j - 1) : col[k] = NaN]
    ELSE 0

Column(rows, name) == [i \in 1..Len(rows) |-> rows[i][name]]

\* lines 541-560: the filled columns, then dropna on distance and speed
Cleaned(rows) ==
    SelectSeq([i \in 1..Len(rows) |->
                  [timestamp |-> i,
                   dist |-> Filled(Column(rows, "dist"), i),
                   speed |-> Filled(Column(rows, "speed"), i)]],
              LAMBDA x : x.dist # NaN /\ x.speed # NaN)

\* a division rounding toward zero
SectorTruncated(d, sector_size) ==
    IF d < 0 THEN 0 - ((0 - d) \div sector_size) ELSE d \div sector_size

\* lines 575-576: (distance // sector_size).astype(int)
Sector(d, sector_size) == d \div sector_size

WithSector(clean, sector_size) ==
    [i \in 1..Len(clean) |->
        [timestamp |-> clean[i].timestamp, dist |-> clean[i].dist,
         speed |-> clean[i].speed, sector |-> Sector(clean[i].dist, sector_size)]]

RECURSIVE SumOf(_, _)
SumOf(rows, name) ==
    IF rows = <<>> THEN 0 ELSE Head(rows)[name] + SumOf(Tail(rows), name)

\* the ascending list of a set of integers
RECURSIVE Ascending(_)
Ascending(S) ==
    IF S = {} THEN <<>>
    ELSE Bind(CHOOSE a \in S : \A b \in S : a <= b,
              LAMBDA a : <<a>> \o Ascending(S \ {a}))

\* lines 586-587: groupby('sector').agg(...).reset_index(); the mean speed is
\* kept as the sum and the number of rows
SectorTable(clean) ==
    Bind(Ascending({clean[i].sector : i \in 1..Len(clean)}), LAMBDA idx :
        [k \in 1..Len(idx) |->
            Bind(SelectSeq(clean, LAMBDA x : x.sector = idx[k]), LAMBDA grp :
                [sector |-> idx[k],
                 Speed |-> <<SumOf(grp, "speed"), Len(grp)>>,
                 Laptrigger_lapdist_dls |-> grp[1].dist])])

\* a merge keeping every sector of the user lap
LeftJoin(user_sectors, golden_sectors) ==
    [k \in 1..Len(user_sectors) |->
        [sector |-> user_sectors[k].sector,
         Speed_user |-> user_sectors[k].Speed,
         Laptrigger_lapdist_dls_user |-> user_sectors[k].Laptrigger_lapdist_dls]]

\* lines 590-595: user_sectors.merge(golden_sectors, on='sector', how='inner')
InnerJoin(user_sectors, golden_sectors) ==
    Bind(SelectSeq(user_sectors,
                   LAMBDA u : \E j \in 1..Len(golden_sectors) :
                                 golden_sectors[j].sector = u.sector),
         LAMBDA kept :
           [k \in 1..Len(kept) |->
               Bind(golden_sectors[CHOOSE j \in 1..Len(golden_sectors) :
                                      golden_sectors[j].sector = kept[k].sector],
                    LAMBDA g :
                      [sector |-> kept[k].sector,
                       Speed_user |-> kept[k].Speed,
                       Speed_golden |-> g.Speed,
                       Laptrigger_lapdist_dls_user |-> kept[k].Laptrigger_lapdist_dls,
                       Laptrigger_lapdist_dls_golden |-> g.Laptrigger_lapdist_dls])])

\* lines 646-659 and 691-694: the rows of a cleaned slice as the result lists them
TelemetrySample(clean) ==
    [i \in 1..Len(clean) |->
        [Speed |-> clean[i].speed, Laptrigger_lapdist_dls |-> clean[i].dist,
         timestamp |-> clean[i].timestamp]]

\* compare_laps from the two slices to the sectors and telemetry of the result
CompareSectors(user_data, golden_data, sector_size) ==
    Bind(Cleaned(user_data), LAMBDA user_filled :
    Bind(Cleaned(golden_data), LAMBDA golden_filled :
    IF Len(user_filled) = 0
    THEN [err |-> "ValueError: No valid telemetry data for user lap after cleaning"]
    ELSE IF Len(golden_filled) = 0
    THEN [err |-> "ValueError: No valid telemetry data for golden lap after cleaning"]
    ELSE
    Bind(WithSector(user_filled, sector_size), LAMBDA user_clean :
    Bind(WithSector(golden_filled, sector_size), LAMBDA golden_clean :
    Bind(InnerJoin(SectorTable(user_clean), SectorTable(golden_clean)), LAMBDA comparison :
    IF Len(comparison) = 0
    THEN [err |-> "ValueError: No overlapping sectors between laps",
          user_clean |-> user_clean, golden_clean |-> golden_clean]
    ELSE [err |-> "", user_clean |-> user_clean, golden_clean |-> golden_clean,
          sectors |-> comparison,
          telemetry |-> [user |-> TelemetrySample(user_clean),
                         golden |-> TelemetrySample(golden_clean)]])))))

\* one call of compare_laps on the slices drawn at the start
Compare ==
    /\ cmp.pc = "ready"
    /\ \E out \in {CompareSectors(cmp.user_data, cmp.golden_data, cmp.sector_size)} :
          cmp' = [pc |-> "done", user_data |-> cmp.user_data,
                  golden_data |-> cmp.golden_data, sector_size |-> cmp.sector_size,
                  out |-> out]
    /\ UNCHANGED <<dataVars, procVars, analysisVars, concVars, fileVars, nat, replay, keyed, boot, ins>>

\* the slices: up to MaxSamples rows each
SlicesOver(dists, speeds) ==
    UNION {[1..n -> [dist : dists, speed : speeds]] : n \in 1..MaxSamples}

\* SpecTelemetry: calls of load_telemetry on a session with rows on lap 0 (the
\* out lap), for all laps or one, for all vehicles or one
InitTelemetry ==
    /\ events = SessionEvents
    /\ telemetry = {x \in Vehicles \X (0..MaxLap) :
                        x[2] # 1 /\ (x[1] = "GR86-002-13" \/ x[2] = MaxLap)}
    /\ lapFile = TRUE
    /\ telFile = TRUE
    /\ supportFiles = {"results", "weather"}
    /\ InitProc /\ InitAnalysis /\ InitIdle /\ InitCalc
    /\ aiClient = FALSE
    /\ watch = ""

NextTelemetry ==
    \/ \E vehicle_id \in {"", "GR86-002-13"}, lap \in {NoLap} \cup (0..MaxLap) :
          MLoadTelemetry(vehicle_id, lap)
    \/ RClearCache

SpecTelemetry == InitTelemetry /\ [][NextTelemetry]_vars

\* SpecSectors: compare_laps on every pair of slices and every sector size
InitSectors ==
    /\ InitRest
    /\ nat = [pc |-> "idle"]
    /\ replay = [pc |-> "idle"]
    /\ keyed = [pc |-> "idle"]
    /\ boot = [pc |-> "idle"]
    /\ ins = [pc |-> "idle"]
    /\ \E u \in SlicesOver({NaN, -1, 0, 2, 4}, {NaN, 50}),
          g \in SlicesOver({2, 4, 6}, {60}),
          size \in {1, 2} :
          cmp = [pc |-> "ready", user_data |-> u, golden_data |-> g, sector_size |-> size]

SpecSectors == InitSectors /\ [][Compare]_vars

-----------------------------------------------------------------------------
(* _to_native (lines 1289-1307), applied by compare_laps to its result.    *)
(* A value is [kind, num, items]: kind is the Python type, num the number  *)
(* of a float or numpy scalar, items the members of a container.           *)

MaxItems == 2
Numbers == {"1.5", "nan", "inf", "-inf"}
NonFinite == {"nan", "inf", "-inf"}

PyNone == [kind |-> "NoneType", num |-> "", items |-> <<>>]
Scalar(kind, num) == [kind |-> kind, num |-> num, items |-> <<>>]
Container(kind, items) == [kind |-> kind, num |-> "", items |-> items]

\* _to_native, clause by clause
RECURSIVE ToNative(_)
ToNative(value) ==
    IF value.kind = "dict"
    THEN Container("dict", [i \in 1..Len(value.items) |-> ToNative(value.items[i])])
    ELSE IF value.kind = "list"
    THEN Container("list", [i \in 1..Len(value.items) |-> ToNative(value.items[i])])
    ELSE IF value.kind \in {"tuple", "set"}
    THEN Container("list", [i \in 1..Len(value.items) |-> ToNative(value.items[i])])
    ELSE IF value.kind = "np.float64"          \* isinstance(value, np.generic)
    THEN Scalar("float", value.num)            \* value.item()
    ELSE IF value.kind = "ndarray"
    THEN Container("list",                     \* value.tolist()
                   [i \in 1..Len(value.items) |-> Scalar("float", value.items[i].num)])
    ELSE IF value.kind = "Series"              \* _to_native(value.to_dict())
    THEN ToNative(Container("dict",
                   [i \in 1..Len(value.items) |-> Scalar("float", value.items[i].num)]))
    ELSE IF value.kind = "float"
    THEN (IF value.num \in NonFinite THEN PyNone ELSE value)
    ELSE value

\* the values of a result: numbers, containers of numbers, and dicts and lists
\* with one such value inside
Leaves == {Scalar(k, n) : k \in {"float", "np.float64"}, n \in Numbers} \cup {PyNone}
Flat ==
    {Container(k, items) :
        k \in {"dict", "list", "tuple", "set"},
        items \in UNION {[1..n -> Leaves] : n \in 1..MaxItems}}
    \cup {Container(k, items) :
            k \in {"ndarray", "Series"},
            items \in UNION {[1..n -> {Scalar("np.float64", x) : x \in Numbers}] :
                               n \in 1..MaxItems}}
Payloads ==
    Leaves \cup Flat \cup {Container(k, <<v>>) : k \in {"dict", "list"}, v \in Flat}

\* return self._to_native(result)
ToNativeCall ==
    /\ nat.pc = "ready"
    /\ nat' = [pc |-> "done", value |-> nat.value, out |-> ToNative(nat.value)]
    /\ UNCHANGED <<dataVars, procVars, analysisVars, concVars, fileVars, cmp, replay, keyed, boot, ins>>

\* SpecNative: _to_native on every value of the grid
InitNative ==
    /\ InitRest
    /\ cmp = [pc |-> "idle"]
    /\ replay = [pc |-> "idle"]
    /\ keyed = [pc |-> "idle"]
    /\ boot = [pc |-> "idle"]
    /\ ins = [pc |-> "idle"]
    /\ \E v \in Payloads : nat = [pc |-> "ready", value |-> v]

SpecNative == InitNative /\ [][ToNativeCall]_vars

-----------------------------------------------------------------------------
(* ReplayProcessor.normalize_lap_to_timeline (services/replay_processor.py *)
(* lines 11-134) and _downsample_timeline (146-162).  A row has the lap    *)
(* distance in metres, the position along one axis in metres (the code's   *)
(* minutes times 1852) and the speed in m/s (the code's km/h over 3.6);    *)
(* the numbers are floats: finite, an infinity or NaN.                     *)

MaxRows == 4
max_points == 3

\* float('inf') and float('-inf'), beyond every finite number of the grid
Inf == 1000000
NegInf == 0 - Inf

IsFinite(x) == x \notin {Inf, NegInf, NaN}

\* the float operations the walk uses
FSub(a, b) ==
    IF a = NaN \/ b = NaN THEN NaN
    ELSE IF a = Inf THEN (IF b = Inf THEN NaN ELSE Inf)
    ELSE IF a = NegInf THEN (IF b = NegInf THEN NaN ELSE NegInf)
    ELSE IF b = Inf THEN NegInf
    ELSE IF b = NegInf THEN Inf
    ELSE a - b

FAdd(a, b) ==
    IF a = NaN \/ b = NaN THEN NaN
    ELSE IF a = Inf THEN (IF b = NegInf THEN NaN ELSE Inf)
    ELSE IF a = NegInf THEN (IF b = Inf THEN NaN ELSE NegInf)
    ELSE IF b \in {Inf, NegInf} THEN b
    ELSE a + b

\* a * 5
FTimes5(a) == IF IsFinite(a) THEN 5 * a ELSE a

\* (d ** 2) ** 0.5
FAbs(a) == IF a = NaN THEN NaN ELSE IF a \in {Inf, NegInf} THEN Inf ELSE IF a < 0 THEN 0 - a ELSE a

\* a > b, false when either is NaN
FGreater(a, b) == a # NaN /\ b # NaN /\ a > b

\* distance / speed for a speed above 1
FDiv(d, speed) ==
    IF d = NaN THEN NaN
    ELSE IF d \in {Inf, NegInf} THEN d
    ELSE d \div speed

\* _clean_number
CleanNumber(value) == IF IsFinite(value) THEN value ELSE 0

\* the two appends of the walk, lines 52-63 and 108-119
TimelinePoint(time, row) ==
    [time |-> CleanNumber(time), position |-> CleanNumber(row.pos),
     speed |-> CleanNumber(row.speed), distance |-> CleanNumber(row.dist)]

\* a pair walk without the teleport filter
TimeStepNoTeleport(current, next_point) ==
    Bind(FSub(next_point.dist, current.dist), LAMBDA distance :
    Bind(FAbs(FSub(next_point.pos, current.pos)), LAMBDA eucl_dist_m :
    IF distance # NaN /\ distance <= 0 THEN None
    ELSE
    Bind(IF FGreater(distance, 50) /\ FGreater(distance, FTimes5(eucl_dist_m))
         THEN eucl_dist_m ELSE distance, LAMBDA capped :
    Bind((current.speed + next_point.speed) \div 2, LAMBDA avg_speed_ms :
         Some(IF avg_speed_ms > 1 THEN FDiv(capped, avg_speed_ms) ELSE capped)))))

\* lines 69-106 for the pair (current, next_point): nothing when the pair is
\* skipped, else the time step
TimeStep(current, next_point) ==
    Bind(FSub(next_point.dist, current.dist), LAMBDA distance :
    Bind(FAbs(FSub(next_point.pos, current.pos)), LAMBDA eucl_dist_m :
    IF distance # NaN /\ distance <= 0 THEN None
    ELSE IF FGreater(eucl_dist_m, 50) /\ FGreater(eucl_dist_m, FTimes5(distance)) THEN None
    ELSE
    Bind(IF FGreater(distance, 50) /\ FGreater(distance, FTimes5(eucl_dist_m))
         THEN eucl_dist_m ELSE distance, LAMBDA capped :
    Bind((current.speed + next_point.speed) \div 2, LAMBDA avg_speed_ms :
         Some(IF avg_speed_ms > 1 THEN FDiv(capped, avg_speed_ms) ELSE capped)))))

\* the loop of lines 65-119 from pair i on
RECURSIVE Walk(_, _, _, _)
Walk(rows, i, cumulative_time, timeline) ==
    IF i > Len(rows) - 1 THEN [cumulative_time |-> cumulative_time, timeline |-> timeline]
    ELSE Bind(TimeStep(rows[i], rows[i + 1]), LAMBDA step :
         IF step = None THEN Walk(rows, i + 1, cumulative_time, timeline)
         ELSE Bind(FAdd(cumulative_time, step[1]), LAMBDA t :
                   Walk(rows, i + 1, t, Append(timeline, TimelinePoint(t, rows[i + 1])))))

\* np.linspace(0, n - 1, points, dtype=int)
Linspace(n, points) ==
    [k \in 1..points |->
        IF points = 1 THEN 0
        ELSE IF k = points THEN n - 1
        ELSE ((k - 1) * (n - 1)) \div (points - 1)]

\* the loop of lines 155-161 from index k on
RECURSIVE Select(_, _, _, _)
Select(timeline, indices, k, seen) ==
    IF k > Len(indices) THEN <<>>
    ELSE IF indices[k] \in seen THEN Select(timeline, indices, k + 1, seen)
    ELSE <<timeline[indices[k] + 1]>>
            \o Select(timeline, indices, k + 1, seen \cup {indices[k]})

\* a downsampling that takes the first points
FirstPoints(timeline, points) ==
    IF Len(timeline) <= points THEN timeline ELSE SubSeq(timeline, 1, points)

\* _downsample_timeline
DownsampleTimeline(timeline, points) ==
    IF Len(timeline) <= points THEN timeline
    ELSE Select(timeline, Linspace(Len(timeline), points), 1, {})

\* min() of a column
MinOf(col) == CHOOSE a \in {col[i] : i \in 1..Len(col)} :
                  \A i \in 1..Len(col) : a <= col[i]

\* max() of a column
MaxOf(col) == CHOOSE a \in {col[i] : i \in 1..Len(col)} :
                  \A i \in 1..Len(col) : col[i] <= a

\* normalize_lap_to_timeline on the cleaned rows of a lap
NormalizeLapToTimeline(rows) ==
    Bind(Walk(rows, 1, 0, <<TimelinePoint(0, rows[1])>>), LAMBDA w :
    Bind(DownsampleTimeline(w.timeline, max_points), LAMBDA timeline :
        [duration |-> IF w.cumulative_time # 0 THEN w.cumulative_time
                      ELSE timeline[Len(timeline)].time,
         timeline |-> timeline,
         walked |-> w.timeline,
         max_distance |-> MaxOf(Column(rows, "dist")),
         point_count |-> Len(timeline)]))

\* one call of normalize_lap_to_timeline
Normalize ==
    /\ replay.pc = "ready"
    /\ replay' = [pc |-> "done", rows |-> replay.rows,
                  out |-> NormalizeLapToTimeline(replay.rows)]
    /\ UNCHANGED <<dataVars, procVars, analysisVars, concVars, fileVars, cmp, nat, keyed, boot, ins>>

\* the cleaned telemetry of a lap: every column free of NaN (lines 24-32), in
\* time order; the car keeps one speed over the lap
ReplayRows ==
    UNION {[1..n -> [dist : {0, 12, 120, Inf}, pos : {0, 1200, Inf}, speed : {v}]] :
              n \in 1..MaxRows, v \in {0, 4}}

\* SpecReplay: normalize_lap_to_timeline on every lap of the grid
InitReplay ==
    /\ InitRest
    /\ cmp = [pc |-> "idle"]
    /\ nat = [pc |-> "idle"]
    /\ keyed = [pc |-> "idle"]
    /\ boot = [pc |-> "idle"]
    /\ ins = [pc |-> "idle"]
    /\ \E rows \in ReplayRows : replay = [pc |-> "ready", rows |-> rows]

SpecReplay == InitReplay /\ [][Normalize]_vars

-----------------------------------------------------------------------------
(* _make_cache_key on the parameters of two compare requests.  circuit,    *)
(* chassis and race are any strings a request carries, car_number and lap  *)
(* any integers.                                                           *)

CompareRequests ==
    [circuit : {"barber", "barber:002"}, chassis : {"002", "13", "002:13"},
     car_number : {2, 13}, lap : {2, 13}, race : {"R1", "2:R1"}]

\* compare_lap line 61 for each of the two requests
MakeKeys ==
    /\ keyed.pc = "ready"
    /\ keyed' = [pc |-> "done", a |-> keyed.a, b |-> keyed.b,
                 key_a |-> MakeCacheKey(keyed.a.circuit, keyed.a.chassis, keyed.a.car_number,
                                        keyed.a.lap, keyed.a.race),
                 key_b |-> MakeCacheKey(keyed.b.circuit, keyed.b.chassis, keyed.b.car_number,
                                        keyed.b.lap, keyed.b.race)]
    /\ UNCHANGED <<dataVars, procVars, analysisVars, concVars, fileVars, cmp, nat, replay, boot, ins>>

\* SpecKeys: the cache keys of every two requests of the grid
InitKeys ==
    /\ InitRest
    /\ cmp = [pc |-> "idle"]
    /\ nat = [pc |-> "idle"]
    /\ replay = [pc |-> "idle"]
    /\ boot = [pc |-> "idle"]
    /\ ins = [pc |-> "idle"]
    /\ \E a \in CompareRequests, b \in CompareRequests :
          keyed = [pc |-> "ready", a |-> a, b |-> b]

SpecKeys == InitKeys /\ [][MakeKeys]_vars

-----------------------------------------------------------------------------
(* The conversion of a whole data directory: _bootstrap_data of a new      *)
(* processor and convert_circuit of the conversion script.  The tree is    *)
(* the entries of data_path in sorted order; a circuit directory holds its *)
(* entries in sorted order.  A file is "other" (not a text file to         *)
(* convert) or a source text file whose conversion returns early ("fresh": *)
(* already converted), converts, or raises.                                *)

MaxDirs == 2
MaxFiles == 2

FileKinds == {"other", "fresh", "converts", "raises"}
DirKinds == {"circuit", "hidden", "file"}

\* _convert_csv_file as its caller sees it
ConvertCsvFile(kind) == IF kind = "raises" THEN "raised" ELSE "returned"

\* a loop over the files that lets the exception of a conversion out
RECURSIVE ConvertUncaught(_, _, _, _)
ConvertUncaught(d, files, i, log) ==
    IF i > Len(files) THEN [log |-> log, raised |-> FALSE]
    ELSE IF files[i] = "other" THEN ConvertUncaught(d, files, i + 1, log)
    ELSE Bind(Append(log, [dir |-> d, file |-> i, outcome |-> ConvertCsvFile(files[i])]),
              LAMBDA after :
              IF files[i] = "raises" THEN [log |-> after, raised |-> TRUE]
              ELSE ConvertUncaught(d, files, i + 1, after))

\* _convert_csv_directory from file i on: the source text files in sorted
\* order, each in its own try block whose except clause prints and goes on
RECURSIVE ConvertCsvDirectory(_, _, _, _)
ConvertCsvDirectory(d, files, i, log) ==
    IF i > Len(files) THEN [log |-> log, raised |-> FALSE]
    ELSE IF files[i] = "other" THEN ConvertCsvDirectory(d, files, i + 1, log)
    ELSE ConvertCsvDirectory(d, files, i + 1,
            Append(log, [dir |-> d, file |-> i, outcome |-> ConvertCsvFile(files[i])]))

\* _bootstrap_data from entry k on: entries that are not directories and
\* hidden directories are skipped; an exception of _convert_csv_directory
\* would leave the loop
RECURSIVE BootstrapData(_, _, _)
BootstrapData(tree, k, log) ==
    IF k > Len(tree) THEN [log |-> log, raised |-> FALSE]
    ELSE IF tree[k].kind # "circuit" THEN BootstrapData(tree, k + 1, log)
    ELSE Bind(ConvertCsvDirectory(k, tree[k].files, 1, log), LAMBDA r :
              IF r.raised THEN r ELSE BootstrapData(tree, k + 1, r.log))

\* convert_circuit from file i on: every *.csv of the directory, each call of
\* convert_csv_to_parquet (which has no early return) in its own try block
RECURSIVE ConvertCircuit(_, _, _, _)
ConvertCircuit(d, files, i, log) ==
    IF i > Len(files) THEN [log |-> log, raised |-> FALSE]
    ELSE IF files[i] = "other" THEN ConvertCircuit(d, files, i + 1, log)
    ELSE ConvertCircuit(d, files, i + 1,
            Append(log, [dir |-> d, file |-> i, outcome |-> ConvertCsvFile(files[i])]))

\* RaceDataProcessor.__init__
Bootstrap ==
    /\ boot.pc = "ready"
    /\ \E r \in {BootstrapData(boot.tree, 1, <<>>)} :
          boot' = [pc |-> "done", by |-> "bootstrap", tree |-> boot.tree,
                   log |-> r.log, raised |-> r.raised]
    /\ UNCHANGED <<dataVars, procVars, analysisVars, concVars, fileVars, cmp, nat, replay, keyed, ins>>

\* the conversion script on the circuit that is the first entry of the tree
ConvertScript ==
    /\ boot.pc = "ready"
    /\ \E r \in {ConvertCircuit(1, boot.tree[1].files, 1, <<>>)} :
          boot' = [pc |-> "done", by |-> "script", tree |-> boot.tree,
                   log |-> r.log, raised |-> r.raised]
    /\ UNCHANGED <<dataVars, procVars, analysisVars, concVars, fileVars, cmp, nat, replay, keyed, ins>>

FileLists == UNION {[1..n -> FileKinds] : n \in 1..MaxFiles}

DirEntries ==
    {[kind |-> "circuit", files |-> f] : f \in FileLists}
        \cup {[kind |-> "hidden", files |-> <<"converts">>], [kind |-> "file", files |-> <<>>]}

\* SpecBootstrap: every data directory of up to MaxDirs entries
InitBootstrap ==
    /\ InitRest
    /\ cmp = [pc |-> "idle"]
    /\ nat = [pc |-> "idle"]
    /\ replay = [pc |-> "idle"]
    /\ keyed = [pc |-> "idle"]
    /\ ins = [pc |-> "idle"]
    /\ \E n \in 1..MaxDirs : \E tree \in [1..n -> DirEntries] :
          boot = [pc |-> "ready", tree |-> tree]

NextBootstrap == Bootstrap \/ ConvertScript

SpecBootstrap == InitBootstrap /\ [][NextBootstrap]_vars

-----------------------------------------------------------------------------
(* The builders compare_laps calls on the vehicle's history (lines 631-668). *)
(* vehicle_history is the vehicle's rows of the lap-time table sorted by     *)
(* lap: a sequence of [lap, lap_time] with increasing laps.  fetch[lap] is   *)
(* what get_lap_telemetry does for the lap: it returns rows with the columns *)
(* the builders need ("rows"), returns rows without them ("bare"), or raises. *)

MaxHistory == 3
limit == 3

FetchOutcomes == {"rows", "bare", "raises"}
InsightsUnchanged ==
    UNCHANGED <<dataVars, procVars, analysisVars, concVars, fileVars, cmp, nat, replay,
                keyed, boot>>

\* df.iloc[0] of sort_values('lap_time'): a row of least lap time, the
\* earliest lap among equals
Fastest(history) ==
    history[CHOOSE i \in DOMAIN history :
               \A j \in DOMAIN history :
                  \/ history[i].lap_time < history[j].lap_time
                  \/ history[i].lap_time = history[j].lap_time /\ i <= j]
\* df.iloc[0] of sort_values('lap_time', ascending=False)
Slowest(history) ==
    history[CHOOSE i \in DOMAIN history :
               \A j \in DOMAIN history :
                  \/ history[i].lap_time > history[j].lap_time
                  \/ history[i].lap_time = history[j].lap_time /\ i <= j]
\* df.iloc[0] of sort_values('lap', ascending=False)
Recent(history) ==
    history[CHOOSE i \in DOMAIN history : \A j \in DOMAIN history :
               history[i].lap >= history[j].lap]

\* lines 752-762: the labelled rows, without those of the requested lap
LapCandidates(history, exclude_lap) ==
    SelectSeq(<<[label |-> "Best Lap", row |-> Fastest(history)],
                [label |-> "Slowest Lap", row |-> Slowest(history)],
                [label |-> "Most Recent Lap", row |-> Recent(history)]>>,
              LAMBDA cand : cand.row.lap # exclude_lap)

\* a loop that lets the exception of get_lap_telemetry out
RECURSIVE GhostLoopUncaught(_, _, _, _, _)
GhostLoopUncaught(cands, i, fetch, ghosts, seen) ==
    IF i > Len(cands) THEN [err |-> "", val |-> ghosts]
    ELSE IF cands[i].row.lap \in seen
    THEN GhostLoopUncaught(cands, i + 1, fetch, ghosts, seen)
    ELSE IF fetch[cands[i].row.lap] = "raises" THEN [err |-> "Exception", val |-> <<>>]
    ELSE IF fetch[cands[i].row.lap] = "bare"
    THEN GhostLoopUncaught(cands, i + 1, fetch, ghosts, seen)
    ELSE Bind(Append(ghosts, [label |-> cands[i].label, lap |-> cands[i].row.lap,
                               lap_time |-> cands[i].row.lap_time]), LAMBDA more :
              IF Len(more) >= limit THEN [err |-> "", val |-> more]
              ELSE GhostLoopUncaught(cands, i + 1, fetch, more, seen \cup {cands[i].row.lap}))

\* a loop that never fills `seen`
RECURSIVE GhostLoopNoSeen(_, _, _, _, _)
GhostLoopNoSeen(cands, i, fetch, ghosts, seen) ==
    IF i > Len(cands) THEN [err |-> "", val |-> ghosts]
    ELSE IF fetch[cands[i].row.lap] # "rows"
    THEN GhostLoopNoSeen(cands, i + 1, fetch, ghosts, seen)
    ELSE Bind(Append(ghosts, [label |-> cands[i].label, lap |-> cands[i].row.lap,
                               lap_time |-> cands[i].row.lap_time]), LAMBDA more :
              IF Len(more) >= limit THEN [err |-> "", val |-> more]
              ELSE GhostLoopNoSeen(cands, i + 1, fetch, more, seen))

\* lines 764-785, from candidate i on: a lap already taken is skipped, an
\* exception of get_lap_telemetry skips the candidate, and so does an empty
\* serialization
RECURSIVE GhostLoop(_, _, _, _, _)
GhostLoop(cands, i, fetch, ghosts, seen) ==
    IF i > Len(cands) THEN [err |-> "", val |-> ghosts]
    ELSE IF cands[i].row.lap \in seen THEN GhostLoop(cands, i + 1, fetch, ghosts, seen)
    ELSE IF fetch[cands[i].row.lap] = "raises"
    THEN GhostLoop(cands, i + 1, fetch, ghosts, seen)
    ELSE IF fetch[cands[i].row.lap] = "bare"
    THEN GhostLoop(cands, i + 1, fetch, ghosts, seen)
    ELSE Bind(Append(ghosts, [label |-> cands[i].label, lap |-> cands[i].row.lap,
                               lap_time |-> cands[i].row.lap_time]), LAMBDA more :
              IF Len(more) >= limit THEN [err |-> "", val |-> more]
              ELSE GhostLoop(cands, i + 1, fetch, more, seen \cup {cands[i].row.lap}))

\* _build_ghost_laps
BuildGhostLaps(fetch, vehicle_history, exclude_lap) ==
    IF Len(vehicle_history) = 0 THEN [err |-> "", val |-> <<>>]
    ELSE GhostLoop(LapCandidates(vehicle_history, exclude_lap), 1, fetch, <<>>, {})

\* lines 960-979 of _build_hot_zone_metrics, from lap i of the window on: the
\* laps whose rows went into sector_speeds, in the order of the window
RECURSIVE HotZoneLoop(_, _, _, _)
HotZoneLoop(recent_laps, i, fetch, used) ==
    IF i > Len(recent_laps) THEN used
    ELSE IF fetch[recent_laps[i]] = "raises" THEN HotZoneLoop(recent_laps, i + 1, fetch, used)
    ELSE IF fetch[recent_laps[i]] = "bare" THEN HotZoneLoop(recent_laps, i + 1, fetch, used)
    ELSE HotZoneLoop(recent_laps, i + 1, fetch, Append(used, recent_laps[i]))

\* _build_hot_zone_metrics: None without laps or without a usable lap, else
\* the statistics over the laps used (samples: how many laps a sector saw)
BuildHotZoneMetrics(fetch, laps) ==
    IF laps = <<>> THEN None
    ELSE Bind(HotZoneLoop(LastSix(laps), 1, fetch, <<>>), LAMBDA used :
              IF used = <<>> THEN None ELSE Some([samples |-> Len(used), laps |-> used]))

\* lines 636-643 and 661-668 of compare_laps
BuildOverlays ==
    /\ ins.pc = "ready"
    /\ \E g \in {BuildGhostLaps(ins.fetch, ins.vehicle_history, ins.lap)} :
       \E hz \in {BuildHotZoneMetrics(ins.fetch,
                     [i \in DOMAIN ins.vehicle_history |-> ins.vehicle_history[i].lap])} :
          ins' = [ins EXCEPT !.pc = "done", !.err = g.err, !.ghost_laps = g.val,
                             !.hot_zones = hz]
    /\ InsightsUnchanged

HistoryLaps == 1..MaxHistory
LapTimeGrid == {90, 95, 99}

\* the histories over a set of laps: increasing laps, any lap times
Histories ==
    UNION {{h \in [1..n -> [lap : HistoryLaps, lap_time : LapTimeGrid]] :
               \A i \in 1..(n - 1) : h[i].lap < h[i + 1].lap} : n \in 0..MaxHistory}

\* SpecOverlays: ghost laps and hot zones over every history, requested lap
\* and telemetry outcome
InitOverlays ==
    /\ InitRest
    /\ cmp = [pc |-> "idle"]
    /\ nat = [pc |-> "idle"]
    /\ replay = [pc |-> "idle"]
    /\ keyed = [pc |-> "idle"]
    /\ boot = [pc |-> "idle"]
    /\ \E h \in Histories, fetch \in [HistoryLaps -> FetchOutcomes],
          lap \in 1..(MaxHistory + 1) :
          ins = [pc |-> "ready", vehicle_history |-> h, fetch |-> fetch, lap |-> lap,
                 err |-> "", ghost_laps |-> <<>>, hot_zones |-> None]

SpecOverlays == InitOverlays /\ [][BuildOverlays]_vars

-----------------------------------------------------------------------------
(* The recommendations of compare_laps (lines 600-620) and                 *)
(* _generate_recommendation.  comparison is the merged sector table: one   *)
(* row per overlapping sector, in ascending sector order (the groupby      *)
(* sorts the user sectors and the inner merge keeps the order of the left  *)
(* keys), with the three differences of lines 601-603.                     *)

MaxSectors == 4

\* nsmallest with keep='last': among equal values the later row first
RECURSIVE NSmallestKeepLast(_, _, _)
NSmallestKeepLast(frame, n, col) ==
    IF n = 0 \/ frame = <<>> THEN <<>>
    ELSE Bind(CHOOSE i \in DOMAIN frame :
                 \A j \in DOMAIN frame :
                    \/ frame[i][col] < frame[j][col]
                    \/ frame[i][col] = frame[j][col] /\ i >= j,
              LAMBDA i :
                <<frame[i]>> \o NSmallestKeepLast(SelectSeq(frame, LAMBDA x : x # frame[i]),
                                                  n - 1, col))

\* DataFrame.nsmallest(n, col) with the default keep='first': the n rows of
\* least value in ascending order, among equal values the earlier row first
RECURSIVE NSmallest(_, _, _)
NSmallest(frame, n, col) ==
    IF n = 0 \/ frame = <<>> THEN <<>>
    ELSE Bind(CHOOSE i \in DOMAIN frame :
                 \A j \in DOMAIN frame :
                    \/ frame[i][col] < frame[j][col]
                    \/ frame[i][col] = frame[j][col] /\ i <= j,
              LAMBDA i :
                <<frame[i]>> \o NSmallest(SelectSeq(frame, LAMBDA x : x # frame[i]),
                                          n - 1, col))

\* a classification with thresholds that are not strict
GenerateRecommendationNotStrict(sector) ==
    IF sector.brake_diff # NaN /\ sector.brake_diff >= 20
    THEN "Braking too aggressively"
    ELSE IF sector.throttle_diff # NaN /\ sector.throttle_diff <= -10
    THEN "Hesitant throttle application"
    ELSE "Suboptimal corner speed"

\* _generate_recommendation: the issue (has_brake and has_throttle are
\* pd.notna of the differences)
GenerateRecommendation(sector) ==
    IF sector.brake_diff # NaN /\ sector.brake_diff > 20
    THEN "Braking too aggressively"
    ELSE IF sector.throttle_diff # NaN /\ sector.throttle_diff < -10
    THEN "Hesitant throttle application"
    ELSE "Suboptimal corner speed"

\* lines 605-620
Recommendations(comparison) ==
    Bind(NSmallest(comparison, 3, "speed_diff"), LAMBDA worst_3 :
        [k \in DOMAIN worst_3 |->
            [sector |-> worst_3[k].sector,
             speed_loss |-> FAbs(worst_3[k].speed_diff),
             issue |-> GenerateRecommendation(worst_3[k])]])

Recommend ==
    /\ ins.pc = "ready"
    /\ ins' = [ins EXCEPT !.pc = "done", !.recommendations = Recommendations(ins.comparison)]
    /\ InsightsUnchanged

\* the values of the three differences of a sector
SectorDiffs ==
    [speed_diff : {-5, -3}, brake_diff : {NaN, 20, 21}, throttle_diff : {-10, -11}]

\* SpecRecommend: the recommendations of every merged table of up to
\* MaxSectors sectors, the sector of row k being k - 1
InitRecommend ==
    /\ InitRest
    /\ cmp = [pc |-> "idle"]
    /\ nat = [pc |-> "idle"]
    /\ replay = [pc |-> "idle"]
    /\ keyed = [pc |-> "idle"]
    /\ boot = [pc |-> "idle"]
    /\ \E n \in 1..MaxSectors : \E t \in [1..n -> SectorDiffs] :
          ins = [pc |-> "ready",
                 comparison |-> [k \in 1..n |->
                                    [sector |-> k - 1, speed_diff |-> t[k].speed_diff,
                                     brake_diff |-> t[k].brake_diff,
                                     throttle_diff |-> t[k].throttle_diff]],
                 recommendations |-> <<>>]

SpecRecommend == InitRecommend /\ [][Recommend]_vars

-----------------------------------------------------------------------------
(* _build_consistency_metrics: the outliers.  times is the lap_time column *)
(* of the history in lap order, in tenths of a second, the lap of times[i] *)
(* being i.  With n laps of sum S, mean = S / n and np.std is the          *)
(* population deviation, so n * (t - mean) = n * t - S and                  *)
(* n^3 * std_dev^2 is the sum of the squares of those; the comparisons of  *)
(* the code are made on these integers.                                    *)

MaxTimes == 6

RECURSIVE Total(_)
Total(times) == IF times = <<>> THEN 0 ELSE Head(times) + Total(Tail(times))

\* n * delta, for delta = lap_time - avg_time of lap i
ScaledDelta(times, i) == Len(times) * times[i] - Total(times)

\* n^3 * std_dev^2
ScaledVariance(times) ==
    Total([i \in DOMAIN times |-> ScaledDelta(times, i) * ScaledDelta(times, i)])

\* a threshold of one standard deviation
IsOutlierOneSigma(times, i) ==
    /\ ScaledVariance(times) > 0
    /\ Len(times) * ScaledDelta(times, i) * ScaledDelta(times, i) > ScaledVariance(times)

\* line 846: std_dev > 0 and abs(delta) > threshold, with threshold = std_dev * 2
IsOutlier(times, i) ==
    /\ ScaledVariance(times) > 0
    /\ Len(times) * ScaledDelta(times, i) * ScaledDelta(times, i) > 4 * ScaledVariance(times)

\* _build_consistency_metrics: the outliers and the recommendation
BuildConsistencyMetrics(times) ==
    IF times = <<>> THEN None
    ELSE Bind(SelectSeq([i \in DOMAIN times |-> i], LAMBDA i : IsOutlier(times, i)),
              LAMBDA outliers :
                Some([outliers |-> outliers,
                      recommendation |-> IF outliers # <<>> THEN "Watch laps"
                                         ELSE "Great consistency overall. Keep building rhythm."]))

Consistency ==
    /\ ins.pc = "ready"
    /\ ins' = [ins EXCEPT !.pc = "done", !.consistency = BuildConsistencyMetrics(ins.times)]
    /\ InsightsUnchanged

\* 90.9 s, 91.8 s, 92.1 s, 93.0 s and 130.0 s
TenthsGrid == {909, 918, 921, 930, 1300}

\* SpecConsistency: the outliers of every history of up to MaxTimes laps
InitConsistency ==
    /\ InitRest
    /\ cmp = [pc |-> "idle"]
    /\ nat = [pc |-> "idle"]
    /\ replay = [pc |-> "idle"]
    /\ keyed = [pc |-> "idle"]
    /\ boot = [pc |-> "idle"]
    /\ \E n \in 0..MaxTimes : \E times \in [1..n -> TenthsGrid] :
          ins = [pc |-> "ready", times |-> times, consistency |-> None]

SpecConsistency == InitConsistency /\ [][Consistency]_vars

-----------------------------------------------------------------------------
(* _build_progression_metrics: the plateau.  times is the lap_time column  *)
(* of the history in lap order, in hundredths of a second, the lap of      *)
(* times[i] being i; 0 stands for a plateau_start of None.                  *)

\* abs(delta_prev) < 0.1 at row i, delta_prev = previous_time - lap_time
SmallDelta(times, i) ==
    Bind(times[i - 1] - times[i], LAMBDA delta_prev :
         (IF delta_prev < 0 THEN 0 - delta_prev ELSE delta_prev) < 10)

\* the loop of lines 911-924 from row i on
RECURSIVE ProgressionLoop(_, _, _, _)
ProgressionLoop(times, i, plateau_start, plateau_detected) ==
    IF i > Len(times) THEN plateau_detected
    ELSE IF i = 1 THEN ProgressionLoop(times, 2, plateau_start, plateau_detected)
    ELSE IF SmallDelta(times, i)
    THEN Bind(IF plateau_start # 0 THEN plateau_start ELSE i, LAMBDA started :
              ProgressionLoop(times, i + 1, started, started))
    ELSE ProgressionLoop(times, i + 1, 0, plateau_detected)

\* _build_progression_metrics: the lap of the plateau insight, if any
BuildProgressionMetrics(times) ==
    IF times = <<>> THEN None
    ELSE Bind(ProgressionLoop(times, 1, 0, 0), LAMBDA plateau_detected :
              Some([plateau_detected |-> plateau_detected,
                    total_improvement |-> times[1] - MinOf(times)]))

Progression ==
    /\ ins.pc = "ready"
    /\ ins' = [ins EXCEPT !.pc = "done", !.progression = BuildProgressionMetrics(ins.times)]
    /\ InsightsUnchanged

\* 92.00 s, 92.05 s and 95.00 s
HundredthsGrid == {9200, 9205, 9500}

\* SpecProgression: the plateau of every history of up to MaxTimes laps
InitProgression ==
    /\ InitRest
    /\ cmp = [pc |-> "idle"]
    /\ nat = [pc |-> "idle"]
    /\ replay = [pc |-> "idle"]
    /\ keyed = [pc |-> "idle"]
    /\ boot = [pc |-> "idle"]
    /\ \E n \in 0..MaxTimes : \E times \in [1..n -> HundredthsGrid] :
          ins = [pc |-> "ready", times |-> times, progression |-> None]

SpecProgression == InitProgression /\ [][Progression]_vars

-----------------------------------------------------------------------------
(* _build_race_timeline on the vehicle's history and the history of the    *)
(* golden-lap vehicle, both sorted by lap.                                  *)

\* golden_lookup.get(lap_num)
GoldenLookup(golden_hist, lap_num) ==
    IF \E j \in DOMAIN golden_hist : golden_hist[j].lap = lap_num
    THEN Some(golden_hist[CHOOSE j \in DOMAIN golden_hist : golden_hist[j].lap = lap_num].lap_time)
    ELSE None

\* the loop of lines 807-823 from row i on
RECURSIVE TimelineLoop(_, _, _, _, _, _)
TimelineLoop(user_hist, golden_hist, i, user_cum, golden_cum, timeline) ==
    IF i > Len(user_hist) THEN timeline
    ELSE Bind(user_cum + user_hist[i].lap_time, LAMBDA cum :
         Bind(GoldenLookup(golden_hist, user_hist[i].lap), LAMBDA golden_time :
         Bind(IF golden_time # None THEN golden_cum + golden_time[1] ELSE golden_cum,
              LAMBDA gcum :
                TimelineLoop(user_hist, golden_hist, i + 1, cum, gcum,
                    Append(timeline,
                           [lap |-> user_hist[i].lap, lap_time |-> user_hist[i].lap_time,
                            cumulative |-> cum,
                            gap_to_golden |-> IF golden_time # None THEN Some(cum - gcum)
                                              ELSE None])))))

\* _build_race_timeline
BuildRaceTimeline(vehicle_history, golden_hist) ==
    IF Len(vehicle_history) = 0 THEN <<>>
    ELSE TimelineLoop(vehicle_history, golden_hist, 1, 0, 0, <<>>)

RaceTimeline ==
    /\ ins.pc = "ready"
    /\ ins' = [ins EXCEPT !.pc = "done",
                          !.race_timeline = BuildRaceTimeline(ins.vehicle_history,
                                                              ins.golden_hist)]
    /\ InsightsUnchanged

\* SpecTimeline: the race timeline of every pair of histories
InitTimeline ==
    /\ InitRest
    /\ cmp = [pc |-> "idle"]
    /\ nat = [pc |-> "idle"]
    /\ replay = [pc |-> "idle"]
    /\ keyed = [pc |-> "idle"]
    /\ boot = [pc |-> "idle"]
    /\ \E h \in Histories, g \in Histories :
          ins = [pc |-> "ready", vehicle_history |-> h, golden_hist |-> g,
                 race_timeline |-> <<>>]

SpecTimeline == InitTimeline /\ [][RaceTimeline]_vars

-----------------------------------------------------------------------------
(* Claims about lap times and the golden lap, stated over the source data. *)

\* the laps before l on which vehicle v has an event
EarlierLaps(v, l) == {k \in Laps : k < l /\ events[<<v, k>>] # NoEvent}

LatestEarlierLap(v, l) == CHOOSE k \in EarlierLaps(v, l) : \A j \in EarlierLaps(v, l) : j <= k

\* the difference of vehicle v's lap-l event to the preceding event of v
DiffToPreceding(v, l) == events[<<v, l>>] - events[<<v, LatestEarlierLap(v, l)>>]

\* vehicle v's lap l has a Lap Time Record
HasRecord(v, l) ==
    /\ events[<<v, l>>] # NoEvent
    /\ EarlierLaps(v, l) # {}
    /\ DiffToPreceding(v, l) >= 60
    /\ DiffToPreceding(v, l) <= 200

\* vehicle v's lap l has a non-empty telemetry slice
HasSlice(v, l) == telFile /\ <<v, l>> \in telemetry

VehicleOf(chassis, car_number) ==
    CHOOSE v \in Vehicles : Chassis(v) = chassis /\ CarNumber(v) = car_number

GoldenIsFastestWithTelemetry(g) ==
    LET v == VehicleOf(g.chassis, g.car_number) IN
    /\ HasRecord(v, g.lap)
    /\ HasSlice(v, g.lap)
    /\ g.time = DiffToPreceding(v, g.lap)
    /\ \A w \in Vehicles, l \in Laps :
          HasRecord(w, l) /\ HasSlice(w, l) => g.time <= DiffToPreceding(w, l)

\* C1: whenever find_golden_lap succeeds, the golden lap returned (and the one
\* kept in golden_laps) is a lap with a telemetry slice, and its time is the
\* minimum lap time over the Lap Time Records that have a telemetry slice.
C1_GoldenIsMinWithTelemetry ==
    /\ (resp.op = "find_golden_lap" /\ resp.err = "")
          => GoldenIsFastestWithTelemetry(resp.val)
    /\ \A key \in DOMAIN proc["processor"].golden_laps :
          GoldenIsFastestWithTelemetry(proc["processor"].golden_laps[key])

\* find_golden_lap has returned a lap although a strictly faster lap exists
\* that has a record but no telemetry
C1_Witness ==
    /\ resp.op = "find_golden_lap" /\ resp.err = ""
    /\ \E w \in Vehicles, l \in Laps :
          /\ HasRecord(w, l) /\ ~HasSlice(w, l)
          /\ DiffToPreceding(w, l) < resp.val.time

RecordsInBand(T) ==
    /\ \A x \in T : x.lap_time >= 60 /\ x.lap_time <= 200
    /\ \A v \in Vehicles, l \in Laps :
          (\E x \in T : x.vehicle = v /\ x.lap = l) => HasRecord(v, l)

\* C10: every Lap Time Record of calculate_lap_times, every lap listed by
\* get_laps and every golden lap has 60 <= lap_time <= 200, and an event with
\* no preceding event of its vehicle, or whose difference to the preceding
\* event is outside the band, has no record.
C10_LapTimesInBand ==
    /\ \A key \in DOMAIN proc["processor"].lap_times_cache :
          RecordsInBand(proc["processor"].lap_times_cache[key])
    /\ (resp.op = "calculate_lap_times" /\ resp.err = "") => RecordsInBand(resp.val)
    /\ (resp.op = "get_laps" /\ resp.err = "")
          => \A x \in resp.val : x.lap_time >= 60 /\ x.lap_time <= 200
    /\ (resp.op = "find_golden_lap" /\ resp.err = "")
          => resp.val.time >= 60 /\ resp.val.time <= 200

\* calculate_lap_times has returned records while one event was dropped for a
\* difference above 200, one for a difference below 60 and one for having no
\* preceding event
C10_Witness ==
    /\ resp.op = "calculate_lap_times" /\ resp.err = "" /\ resp.val # {}
    /\ \E v \in Vehicles, l \in Laps :
          /\ events[<<v, l>>] # NoEvent /\ EarlierLaps(v, l) # {}
          /\ DiffToPreceding(v, l) > 200
          /\ ~\E x \in resp.val : x.vehicle = v /\ x.lap = l
    /\ \E v \in Vehicles, l \in Laps :
          /\ events[<<v, l>>] # NoEvent /\ EarlierLaps(v, l) # {}
          /\ DiffToPreceding(v, l) < 60
          /\ ~\E x \in resp.val : x.vehicle = v /\ x.lap = l
    /\ \E v \in Vehicles, l \in Laps :
          /\ events[<<v, l>>] # NoEvent /\ EarlierLaps(v, l) = {}
          /\ ~\E x \in resp.val : x.vehicle = v /\ x.lap = l

-----------------------------------------------------------------------------
(* The result cache and the compare route.                                  *)

\* the keys an answer of generate_insights can carry
AIKeys == UNION {DOMAIN a : a \in AIAnswers \cup {AINotConfigured}}

\* the fields of a payload that the comparison engine computed and that no
\* answer of the AI coach overwrites
Engine(payload) == [k \in DOMAIN payload.result \ AIKeys |-> payload.result[k]]

\* C2 as stated: every successful answer to the followed compare parameters is
\* structurally identical to the answer given before for the same parameters,
\* whether it is served from the result cache or recomputed.
C2_SameParametersSamePayload ==
    (resp.op = "compare" /\ resp.err = "" /\ resp.prev # None)
        => resp.val = resp.prev[1]

\* C2, amended: a repeated compare request succeeds whenever the earlier one
\* did and returns the same values in the fields the AI coach does not write;
\* the whole payload is identical when the answer is served from the result
\* cache or when no AI coach client is configured.
C2_RepeatableCompare ==
    /\ (resp.op = "compare" /\ resp.key = watch /\ resp.err # "") => lastWatched = None
    /\ (resp.op = "compare" /\ resp.err = "" /\ resp.prev # None)
          => /\ Engine(resp.val) = Engine(resp.prev[1])
             /\ (resp.hit \/ ~aiClient) => resp.val = resp.prev[1]

\* a repeated request was recomputed after its entry had been evicted, no AI
\* coach client being configured
C2_Witness ==
    /\ resp.op = "compare" /\ resp.err = "" /\ resp.prev # None
    /\ ~resp.hit /\ ~aiClient

\* C3: the result cache never holds more than _CACHE_LIMIT entries, and every
\* overflowing set removed exactly the least recently used keys, a set and a
\* successful get both counting as a use.
C3_BoundedLRU ==
    /\ Len(analysis_cache) <= CACHE_LIMIT
    /\ lruOk

\* a set overflowed the limit and the entry removed was not the one set
\* longest ago: that one had been got since
C3_Witness ==
    /\ resp.op = "compare" /\ resp.err = "" /\ ~resp.hit
    /\ resp.evicted # {}
    /\ resp.oldestSet # "" /\ resp.oldestSet \notin resp.evicted
    /\ Len(analysis_cache) = CACHE_LIMIT

\* C4: whatever callers write into the payloads they passed to _cache_set or
\* got from _cache_get, every cached entry keeps the value it had when it was
\* set, and a get returns that value.
C4_CallerMutationIsolated ==
    /\ \A k \in Keys(analysis_cache) :
          /\ k \in DOMAIN setContent
          /\ Content(heap, OdGet(analysis_cache, k)) = setContent[k]
    /\ (resp.op = "compare" /\ resp.hit)
          => /\ resp.key \in DOMAIN setContent
             /\ resp.val = setContent[resp.key]

\* a get answered a key after a caller had written to a payload of that key
C4_Witness ==
    /\ resp.op = "compare" /\ resp.hit
    /\ resp.key \in tampered
    /\ ~heap[resp.obj].dirty

-----------------------------------------------------------------------------
(* The cache clear.                                                         *)

C7_NoAnswerFromClearedEntries == ~resp.stale

-----------------------------------------------------------------------------
(* Concurrent requests on the result cache.                                 *)

\* C5 as stated: a _cache_get that ran interleaved with the calls of another
\* thread never ends in an error, and returns nothing or a complete copy of
\* the payload stored for its key.
C5_ConcurrentGetNeverFails ==
    \A t \in Threads :
        (thr[t].op = "get" /\ thr[t].pc = "done")
            => /\ thr[t].err = ""
               /\ \/ thr[t].result = 0
                  \/ Content(heap, thr[t].result) = PayloadFor(thr[t].key)

-----------------------------------------------------------------------------
(* Conversion and resolution of source files.                               *)

\* C8 as stated: when a conversion has failed, the text file is in place, no
\* temporary file is left, and the columnar path holds nothing but a
\* completely written file.
C8_FailedConversionLeavesNoTrace ==
    (conv.pc = "done" /\ conv.raised)
        => /\ fs.csv # 0
           /\ fs.tmp = NoFile
           /\ fs.parquet # 0 => fs.parquetWhole

\* C9 as stated: a load resolves to the columnar file, a text file being
\* there too, only when the columnar file is at least as fresh.
C9_ColumnarOnlyWhenFresh ==
    (resolved.path = "parquet" /\ resolved.csv # 0)
        => resolved.parquet >= resolved.csv

-----------------------------------------------------------------------------
(* Claims about the failures of find_golden_lap.                           *)

\* some lap of some vehicle has a Lap Time Record
SomeRecord == \E v \in Vehicles, l \in Laps : HasRecord(v, l)

\* some lap that has a Lap Time Record also has a telemetry slice
SomeRecordWithSlice == \E v \in Vehicles, l \in Laps : HasRecord(v, l) /\ HasSlice(v, l)

\* the two failures of the lap-time stage: no lap event at all, or no
\* difference inside the band
NoValidLap == {"ValueError: No lap data available", "ValueError: No valid lap times found"}

NoTelemetryAvailable == "ValueError: No lap with telemetry available"

\* C11: a call of find_golden_lap on a session whose lap file can be read
\* fails with NoValidLap when no lap has a Lap Time Record and with
\* NoTelemetryAvailable when laps have records but none of them has a
\* telemetry slice; a failed call returns no golden lap and stores none.
C11_GoldenLapFailures ==
    resp.op = "find_golden_lap" =>
        /\ (lapFile /\ ~SomeRecord) => resp.err \in NoValidLap
        /\ (lapFile /\ SomeRecord /\ ~SomeRecordWithSlice) => resp.err = NoTelemetryAvailable
        /\ (~SomeRecord \/ ~SomeRecordWithSlice)
              => /\ resp.err # "" /\ resp.val = None
                 /\ DOMAIN proc["processor"].golden_laps = {}

\* find_golden_lap has failed for want of telemetry although a lap has a record
C11_Witness ==
    /\ resp.op = "find_golden_lap" /\ resp.err = NoTelemetryAvailable
    /\ SomeRecord /\ telFile /\ telemetry # {}

-----------------------------------------------------------------------------
(* Claims about the errors of a compare request.                           *)

\* the statuses a compare request answers for a missing source file (the
\* NotFound of the loader) and for laps without a common sector
NotFoundStatus == RouteStatus("compare", "FileNotFoundError")

NoOverlappingSectorsStatus ==
    RouteStatus("compare", "ValueError: No overlapping sectors between laps")

\* the two failures of get_lap_telemetry for a lap without telemetry
NoTelemetryForLap ==
    {"ValueError: No telemetry found for lap", "ValueError: No telemetry found for chassis"}

\* C12: a compare request for a lap that has no telemetry is answered with the
\* kind of NotFound, which is not the kind answered for NoOverlappingSectors or
\* for invalid input.
C12_NoTelemetryIsNotFound ==
    (resp.op = "compare" /\ resp.err \in NoTelemetryForLap)
        => /\ resp.status = NotFoundStatus
           /\ resp.status # NoOverlappingSectorsStatus

-----------------------------------------------------------------------------
(* Claims about the sector comparison.                                     *)

\* the rows of the two cleaned slices of a finished call
CleanRows ==
    IF cmp.pc = "done" /\ "user_clean" \in DOMAIN cmp.out
    THEN {cmp.out.user_clean[i] : i \in 1..Len(cmp.out.user_clean)}
         \cup {cmp.out.golden_clean[i] : i \in 1..Len(cmp.out.golden_clean)}
    ELSE {}

\* C13: every sample of the user lap and of the golden lap, at (cleaned)
\* distance d, is assigned to the sector k = floor(d / sector_size), that is
\* k * sector_size <= d < (k + 1) * sector_size, for every positive sector size.
C13_SectorIsFloor ==
    \A x \in CleanRows :
        /\ x.sector * cmp.sector_size <= x.dist
        /\ x.dist < (x.sector + 1) * cmp.sector_size

\* a call has bucketed a sample at a negative distance and one at a distance
\* that is not a multiple of the sector size
C13_Witness ==
    /\ cmp.pc = "done" /\ cmp.sector_size > 1
    /\ \E x \in CleanRows : x.dist < 0
    /\ \E x \in CleanRows : x.dist > 0

SectorsOf(clean) == {clean[i].sector : i \in 1..Len(clean)}

\* C14: a successful compare has exactly one sector row for each sector index
\* present in both laps and none for any other, and compare fails with
\* NoOverlappingSectors exactly when no sector index is present in both.
C14_InnerJoinOnSector ==
    (cmp.pc = "done" /\ "user_clean" \in DOMAIN cmp.out) =>
        LET common == SectorsOf(cmp.out.user_clean) \cap SectorsOf(cmp.out.golden_clean)
        IN /\ (cmp.out.err = "ValueError: No overlapping sectors between laps")
                 <=> (common = {})
           /\ cmp.out.err = "" =>
                 /\ {cmp.out.sectors[k].sector : k \in 1..Len(cmp.out.sectors)} = common
                 /\ Len(cmp.out.sectors) = Cardinality(common)

\* the example: user sectors 0, 1, 2 against golden sectors 1, 2, 3 has given
\* the two rows of sectors 1 and 2
C14_Witness ==
    /\ cmp.pc = "done" /\ cmp.out.err = ""
    /\ SectorsOf(cmp.out.user_clean) = {0, 1, 2}
    /\ SectorsOf(cmp.out.golden_clean) = {1, 2, 3}
    /\ Len(cmp.out.sectors) = 2

\* the number of samples a downsampled list may have at most
SampleCap == MaxSamples - 1

\* C16: the telemetry lists of a comparison result have at most SampleCap
\* samples each, however many rows the cleaned slices have.
C16_TelemetryDownsampled ==
    (cmp.pc = "done" /\ cmp.out.err = "") =>
        /\ Len(cmp.out.telemetry.user) <= SampleCap
        /\ Len(cmp.out.telemetry.golden) <= SampleCap

-----------------------------------------------------------------------------
(* Claims about the numbers of a result.                                   *)

\* value holds a NaN or an infinity, at any depth
RECURSIVE HasNonFinite(_)
HasNonFinite(value) ==
    \/ value.num \in NonFinite
    \/ \E i \in 1..Len(value.items) : HasNonFinite(value.items[i])

\* C15: what _to_native returns holds no NaN and no infinity, whatever the
\* nesting and whether the number came in as a float or as a numpy scalar.
C15_NoNonFiniteLeaks ==
    nat.pc = "done" => ~HasNonFinite(nat.out)

-----------------------------------------------------------------------------
(* Claims about the replay timeline.                                       *)

\* C17: the time values of an emitted timeline never decrease along the
\* sequence, and the distance of its last element is not above max_distance.
C17_TimelineMonotonic ==
    replay.pc = "done" =>
        LET tl == replay.out.timeline IN
        /\ \A i \in 1..(Len(tl) - 1) : tl[i].time <= tl[i + 1].time
        /\ tl[Len(tl)].distance <= replay.out.max_distance

\* s is t with some elements left out
RECURSIVE IsSubsequence(_, _)
IsSubsequence(s, t) ==
    IF s = <<>> THEN TRUE
    ELSE IF t = <<>> THEN FALSE
    ELSE IF Head(s) = Head(t) THEN IsSubsequence(Tail(s), Tail(t))
    ELSE IsSubsequence(s, Tail(t))

\* C18: the emitted timeline has at most max_points points, begins with the
\* first and ends with the last point of the timeline before downsampling,
\* and keeps the original order.
C18_DownsampleBounded ==
    replay.pc = "done" =>
        LET tl == replay.out.timeline
            full == replay.out.walked
        IN /\ Len(tl) <= max_points
           /\ tl[1] = full[1]
           /\ tl[Len(tl)] = full[Len(full)]
           /\ IsSubsequence(tl, full)

\* a timeline longer than max_points, with distinct points, has been downsampled
C18_Witness ==
    /\ replay.pc = "done"
    /\ Len(replay.out.walked) > max_points
    /\ \A i, j \in 1..Len(replay.out.walked) :
          i # j => replay.out.walked[i] # replay.out.walked[j]

-----------------------------------------------------------------------------
(* Claims about the telemetry cache.                                       *)

\* what load_telemetry returns for the arguments when nothing is cached
UncachedLoad(vehicle_id, lap) == LoadTelemetry(NewProcessor, Circuit, Race, vehicle_id, lap)

\* C19: whatever load_telemetry calls came before, a call returns the table
\* (or fails as) an uncached load with the same circuit, race, vehicle and lap.
C19_TelemetryCacheFaithful ==
    resp.op = "load_telemetry" =>
        /\ resp.err = UncachedLoad(resp.args[1], resp.args[2]).err
        /\ resp.val = UncachedLoad(resp.args[1], resp.args[2]).val

-----------------------------------------------------------------------------
(* Claims about the result-cache key.                                      *)

\* C20: two compare requests that differ in circuit, chassis, car_number, lap
\* or race have different cache keys.
C20_CacheKeyInjective ==
    (keyed.pc = "done" /\ keyed.a # keyed.b) => keyed.key_a # keyed.key_b

-----------------------------------------------------------------------------
(* Failed compare requests and the result cache.                           *)

\* the entries of the result cache, oldest first, with the payloads they hold
CacheView ==
    [i \in 1..Len(analysis_cache) |->
        [key |-> analysis_cache[i].key,
         payload |-> Content(heap, analysis_cache[i].obj)]]

\* C21: a compare request answered with an error leaves the keys, the order
\* and the payloads of the result cache as they were, and stores nothing under
\* its own key, so the next request with that key is computed again.
C21_FailedCompareLeavesCache ==
    [][(resp'.op = "compare" /\ resp'.err # "")
          => /\ CacheView' = CacheView
             /\ ~resp'.hit
             /\ resp'.key \notin Keys(analysis_cache')]_vars

\* a compare request has failed while the cache held two results
C21_Witness ==
    /\ resp.op = "compare"
    /\ resp.err # ""
    /\ Len(analysis_cache) = 2

-----------------------------------------------------------------------------
(* The conversion of a data directory.                                     *)

\* the files the log says were attempted
Attempted == {<<boot.log[i].dir, boot.log[i].file>> : i \in DOMAIN boot.log}

\* the source text files of the circuit directories the run goes over
ToConvert ==
    {df \in (DOMAIN boot.tree) \X (1..MaxFiles) :
        /\ df[2] \in DOMAIN boot.tree[df[1]].files
        /\ boot.tree[df[1]].files[df[2]] # "other"
        /\ IF boot.by = "bootstrap" THEN boot.tree[df[1]].kind = "circuit"
           ELSE df[1] = 1}

\* C22: when the conversion of a data directory is over, every source text
\* file of every circuit directory has been attempted, whether or not the
\* conversion of an earlier file raised, and no exception has left the loop.
C22_EveryFileAttempted ==
    boot.pc = "done" => (Attempted = ToConvert /\ ~boot.raised)

\* the first file of the first circuit raised; its sibling and a file of the
\* next circuit directory were converted afterwards
C22_Witness ==
    /\ boot.pc = "done" /\ boot.by = "bootstrap"
    /\ Len(boot.log) = 3
    /\ boot.log[1] = [dir |-> 1, file |-> 1, outcome |-> "raised"]
    /\ boot.log[2].dir = 1 /\ boot.log[2].outcome = "returned"
    /\ boot.log[3].dir = 2 /\ boot.log[3].outcome = "returned"

-----------------------------------------------------------------------------
(* Ghost laps and hot zones.                                               *)

\* the laps of the ghost laps returned
GhostLapNumbers == {ins.ghost_laps[i].lap : i \in DOMAIN ins.ghost_laps}

\* the laps of the candidates of the call
CandidateLaps ==
    IF ins.vehicle_history = <<>> THEN {}
    ELSE {c.row.lap : c \in {LapCandidates(ins.vehicle_history, ins.lap)[i] :
                               i \in DOMAIN LapCandidates(ins.vehicle_history, ins.lap)}}

HistoryLapNumbers == {ins.vehicle_history[i].lap : i \in DOMAIN ins.vehicle_history}

\* C23: whatever get_lap_telemetry raises for a candidate or for a lap of the
\* window, the builders return; the ghost laps are the candidates whose
\* telemetry could be fetched and serialized, and the hot zones are built
\* from the laps of the window whose telemetry could be fetched.
C23_FetchFailureSkipsItem ==
    ins.pc = "done"
        => /\ ins.err = ""
           /\ GhostLapNumbers = {l \in CandidateLaps : ins.fetch[l] = "rows"}
           /\ LET usable == {l \in HistoryLapNumbers : ins.fetch[l] = "rows"} IN
              IF usable = {} THEN ins.hot_zones = None
              ELSE /\ ins.hot_zones # None
                   /\ {ins.hot_zones[1].laps[i] : i \in DOMAIN ins.hot_zones[1].laps} = usable

\* the fetch of the best lap raised; the slowest and the most recent lap are
\* ghost laps, and the hot zones use the two other laps
C23_Witness ==
    /\ ins.pc = "done"
    /\ Len(ins.vehicle_history) = 3
    /\ ins.lap \notin HistoryLapNumbers
    /\ ins.fetch[Fastest(ins.vehicle_history).lap] = "raises"
    /\ Len(ins.ghost_laps) = 2
    /\ ins.hot_zones # None
    /\ ins.hot_zones[1].samples = 2

\* C29: the ghost laps are at most 3, each is the vehicle's best, slowest or
\* most recent lap, none is the requested lap, and no lap number occurs twice.
C29_GhostLapsDistinct ==
    ins.pc = "done"
        => /\ Len(ins.ghost_laps) <= 3
           /\ \A i \in DOMAIN ins.ghost_laps :
                 /\ ins.ghost_laps[i].lap \in
                       {Fastest(ins.vehicle_history).lap, Slowest(ins.vehicle_history).lap,
                        Recent(ins.vehicle_history).lap}
                 /\ ins.ghost_laps[i].lap # ins.lap
                 /\ \A j \in DOMAIN ins.ghost_laps :
                       ins.ghost_laps[i].lap = ins.ghost_laps[j].lap => i = j

\* two laps of history, neither the requested one, both with telemetry: the
\* most recent lap is also the best or the slowest, and is a ghost lap once
C29_Witness ==
    /\ ins.pc = "done"
    /\ Len(ins.vehicle_history) = 2
    /\ ins.lap \notin HistoryLapNumbers
    /\ \A l \in HistoryLapNumbers : ins.fetch[l] = "rows"
    /\ Len(ins.ghost_laps) = 2

-----------------------------------------------------------------------------
(* The teleport filter of the replay pair walk.                            *)

\* the odometer delta and the displacement of the pair (rows[i], rows[i + 1])
PairDistance(rows, i) == FSub(rows[i + 1].dist, rows[i].dist)
PairDisplacement(rows, i) == FAbs(FSub(rows[i + 1].pos, rows[i].pos))

\* the displacement is above 50 m and above 5 times the odometer delta
Teleport(rows, i) ==
    /\ FGreater(PairDisplacement(rows, i), 50)
    /\ FGreater(PairDisplacement(rows, i), FTimes5(PairDistance(rows, i)))

\* the pairs that are neither teleports nor steps back on the odometer
KeptPairs(rows) ==
    SelectSeq([i \in 1..(Len(rows) - 1) |-> i],
              LAMBDA i : /\ ~Teleport(rows, i)
                         /\ ~(PairDistance(rows, i) # NaN /\ PairDistance(rows, i) <= 0))

AllFinite(rows) ==
    \A i \in DOMAIN rows : IsFinite(rows[i].dist) /\ IsFinite(rows[i].pos)

\* C24: the walk emits one point per pair that is neither a teleport nor a
\* step back, in order, and none for a teleport pair; on a lap of finite
\* samples the time of each point is the time of the point before it plus the
\* step of its own pair, so a teleport pair adds nothing to the elapsed time.
\* Two samples 200 m apart with an odometer delta of 2 m are such a pair.
C24_TeleportPairDiscarded ==
    /\ TimeStep([dist |-> 0, pos |-> 0, speed |-> 100],
                [dist |-> 2, pos |-> 200, speed |-> 100]) = None
    /\ replay.pc = "done"
          => LET rows == replay.rows
                 kept == KeptPairs(replay.rows)
                 walked == replay.out.walked
             IN /\ Len(walked) = 1 + Len(kept)
                /\ \A k \in DOMAIN kept :
                      /\ walked[k + 1].distance = CleanNumber(rows[kept[k] + 1].dist)
                      /\ walked[k + 1].position = CleanNumber(rows[kept[k] + 1].pos)
                      /\ AllFinite(rows)
                            => walked[k + 1].time
                                  = walked[k].time + TimeStep(rows[kept[k]], rows[kept[k] + 1])[1]

\* a lap of finite samples with a teleport pair that moves forward on the
\* odometer, and a later pair that is kept
C24_Witness ==
    /\ replay.pc = "done"
    /\ AllFinite(replay.rows)
    /\ \E i \in 1..(Len(replay.rows) - 1), j \in 1..(Len(replay.rows) - 1) :
          /\ Teleport(replay.rows, i)
          /\ PairDistance(replay.rows, i) > 0
          /\ j > i
          /\ \E k \in DOMAIN KeptPairs(replay.rows) : KeptPairs(replay.rows)[k] = j
    /\ Len(replay.out.walked) >= 2

-----------------------------------------------------------------------------
(* The recommendations.                                                    *)

\* the sectors of the recommendations
Recommended == {ins.recommendations[k].sector : k \in DOMAIN ins.recommendations}

\* the row of the merged table for a sector
SectorRow(sec) == ins.comparison[CHOOSE k \in DOMAIN ins.comparison :
                                    ins.comparison[k].sector = sec]

\* C25: there are min(3, n) recommendations for n overlapping sectors, for
\* distinct sectors, and every recommended sector has a lower speed delta than
\* every sector left out, or the same speed delta and a lower sector index.
C25_WorstThreeSectors ==
    ins.pc = "done"
        => /\ Len(ins.recommendations)
                 = (IF Len(ins.comparison) < 3 THEN Len(ins.comparison) ELSE 3)
           /\ Cardinality(Recommended) = Len(ins.recommendations)
           /\ \A k \in DOMAIN ins.comparison :
                 ins.comparison[k].sector \notin Recommended
                    => \A sec \in Recommended :
                          \/ SectorRow(sec).speed_diff < ins.comparison[k].speed_diff
                          \/ /\ SectorRow(sec).speed_diff = ins.comparison[k].speed_diff
                             /\ sec < ins.comparison[k].sector

\* four overlapping sectors of one speed delta: the three of lowest index
\* are recommended
C25_Witness ==
    /\ ins.pc = "done"
    /\ Len(ins.comparison) = 4
    /\ \A k \in DOMAIN ins.comparison : ins.comparison[k].speed_diff = -3
    /\ Recommended = {0, 1, 2}

\* C26: the issue of a recommended sector is "braking too aggressively" when
\* its brake delta is above 20, else "hesitant throttle" when its throttle
\* delta is below -10, else "suboptimal corner speed"; a brake delta of 20 and
\* a throttle delta of -10 trigger neither.
C26_IssueByPriority ==
    ins.pc = "done"
        => \A k \in DOMAIN ins.recommendations :
              LET row == SectorRow(ins.recommendations[k].sector)
                  issue == ins.recommendations[k].issue
              IN /\ (row.brake_diff # NaN /\ row.brake_diff > 20)
                        => issue = "Braking too aggressively"
                 /\ (~(row.brake_diff # NaN /\ row.brake_diff > 20) /\ row.throttle_diff < -10)
                        => issue = "Hesitant throttle application"
                 /\ (~(row.brake_diff # NaN /\ row.brake_diff > 20) /\ row.throttle_diff >= -10)
                        => issue = "Suboptimal corner speed"

\* one recommended sector with brake delta 21 and throttle delta -11, one with
\* brake delta 20 and throttle delta -11, one with brake delta 20 and throttle
\* delta -10
C26_Witness ==
    /\ ins.pc = "done"
    /\ \E a, b, c \in Recommended :
          /\ SectorRow(a).brake_diff = 21 /\ SectorRow(a).throttle_diff = -11
          /\ SectorRow(b).brake_diff = 20 /\ SectorRow(b).throttle_diff = -11
          /\ SectorRow(c).brake_diff = 20 /\ SectorRow(c).throttle_diff = -10

-----------------------------------------------------------------------------
(* The outliers of the consistency metrics.                                *)

\* the history [92.1, 91.8, 93.0, 90.9]
ExampleTimes == <<921, 918, 930, 909>>

\* the history with one of its laps changed to 130.0
ChangedExamples == {[ExampleTimes EXCEPT ![k] = 1300] : k \in DOMAIN ExampleTimes}

-----------------------------------------------------------------------------
(* The plateau of the progression metrics.                                 *)

\* the laps at which a run of two small lap-to-lap deltas in a row starts
PlateauRuns ==
    {i \in 2..(Len(ins.times) - 1) :
        SmallDelta(ins.times, i) /\ SmallDelta(ins.times, i + 1)}

\* C28 as stated: a plateau is reported only when the lap-to-lap delta stays
\* under 0.1 s on two laps in a row, and the lap reported is the first lap at
\* which such a run starts.
C28_PlateauAtFirstRun ==
    (ins.pc = "done" /\ ins.progression # None /\ ins.progression[1].plateau_detected # 0)
        => /\ PlateauRuns # {}
           /\ \A i \in PlateauRuns : ins.progression[1].plateau_detected <= i

-----------------------------------------------------------------------------
(* The race timeline.                                                      *)

\* the sum of the lap times of a history through lap n
SumThrough(history, n) ==
    Total([i \in DOMAIN history |-> IF history[i].lap <= n THEN history[i].lap_time ELSE 0])

\* C30 as stated: for each lap n of the vehicle, cumulative is the sum of the
\* vehicle's lap times through lap n, gap_to_golden is absent exactly when the
\* golden-lap vehicle has no record for lap n, and is otherwise cumulative
\* minus the sum of the golden-lap vehicle's lap times through lap n.
C30_GapToGoldenCumulative ==
    ins.pc = "done"
        => /\ Len(ins.race_timeline) = Len(ins.vehicle_history)
           /\ \A k \in DOMAIN ins.race_timeline :
                 LET point == ins.race_timeline[k] IN
                 /\ point.lap = ins.vehicle_history[k].lap
                 /\ point.cumulative = SumThrough(ins.vehicle_history, point.lap)
                 /\ (point.gap_to_golden = None)
                       <=> (\A j \in DOMAIN ins.golden_hist : ins.golden_hist[j].lap # point.lap)
                 /\ point.gap_to_golden # None
                       => point.gap_to_golden[1]
                             = point.cumulative - SumThrough(ins.golden_hist, point.lap)

====
